---- MODULE Spec2Model ----
(***************************************************************************)
(* vpptop: the scrollable/filterable table (xtui.Table, views.TableView),  *)
(* the terminal window event loop (gui.TermWindow) and the client          *)
(* application's poll / clear / sort / exit orchestration (client.App).    *)
(*                                                                         *)
(* Strings are sequences of one-character strings, so that                 *)
(* strings.Contains, bytes.Buffer.WriteString and Truncate are computed.   *)
(* A table row is a sequence of cells, a row buffer a sequence of rows.    *)
(***************************************************************************)
EXTENDS Integers, Sequences, FiniteSets, TLC

(***************************************************************************)
(* Bounds of the model.                                                    *)
(***************************************************************************)
\* largest terminal height delivered by a resize event
MaxTermHeight == 13
\* longest filter text typed into the filter paragraph
MaxFilterLen == 1
\* number of poll cycles, clear requests, sort requests and tab switches a
\* run follows
MaxEvents == 3
\* number of keyboard events a run follows
MaxKeys == 3
\* number of calls made on a table of the package's tests
MaxCalls == 4
\* largest number of visible rows and of output rows of such a table
MaxVisibleRows == 3
MaxOutRows == 6

(***************************************************************************)
(* Strings.                                                                *)
(***************************************************************************)
\* the characters typed into the filter; the names of the data source use
\* "a" and "b"
TypedChars == {"a"}

EmptyCell == <<>>

Min(a, b) == IF a < b THEN a ELSE b

\* strings.Contains(s, sub)
Contains(s, sub) ==
    \/ Len(sub) = 0
    \/ \E i \in 1..(Len(s) - Len(sub) + 1) : SubSeq(s, i, i + Len(sub) - 1) = sub

\* make([]string, columns): a row of empty cells
BlankRow(columns) == [c \in 1..columns |-> EmptyCell]

\* capacity of a slice built from nil by appending one element at a time
\* (runtime growslice doubles the capacity of a small slice)
RECURSIVE AppendCap(_, _)
AppendCap(n, c) == IF n <= c THEN c ELSE AppendCap(n, IF c = 0 THEN 1 ELSE 2 * c)

(***************************************************************************)
(* xtui.Table                                                              *)
(***************************************************************************)
skipRows == 2

\* NewTable: the zero viewport, no filter, one row per entry.
\* panicked and lastDraw are observations of the model: whether an operation
\* of the table raised a run-time panic, and what the last Draw did
\* ("none", "skipped" = returned before the grid renderer,
\*  "grid" = handed Table_Rows to widgets.Table.Draw).
NewTable ==
    [ out          |-> <<>>,
      outCap       |-> 0,
      Rows         |-> <<>>,
      Table_Rows   |-> <<>>,
      painted      |-> <<>>,
      offset       |-> 0,
      visibleRows  |-> 0,
      height       |-> 0,
      curr         |-> 0,
      prev         |-> 0,
      filter       |-> <<>>,
      filterColumn |-> -1,
      rowsPerEntry |-> 1,
      panicked     |-> FALSE,
      lastDraw     |-> "none",
      mu           |-> "free" ]

\* paintActiveRow writes RowStyles[prev] and RowStyles[curr]; the map only
\* accumulates and is read by the grid renderer alone, so the model keeps the
\* two keys of the last write
paintActiveRow(t) == [t EXCEPT !.painted = <<t.prev, t.curr>>]

resetPositions(t) ==
    [t EXCEPT !.offset = 0, !.prev = t.curr, !.curr = 0]

\* an AppendToFilter that leaves the positions alone
AppendToFilterNoReset(t, s) ==
    [t EXCEPT !.filter = t.filter \o s]

AppendToFilter(t, s) ==
    resetPositions([t EXCEPT !.filter = t.filter \o s])

\* a ReduceFilter that also refuses to remove the whole text
ReduceFilterKeepingOne(t, n) ==
    IF n >= Len(t.filter) \/ n < 0
    THEN t
    ELSE resetPositions([t EXCEPT !.filter = SubSeq(t.filter, 1, Len(t.filter) - n)])

ReduceFilter(t, n) ==
    IF n > Len(t.filter) \/ n < 0
    THEN t
    ELSE resetPositions([t EXCEPT !.filter = SubSeq(t.filter, 1, Len(t.filter) - n)])

\* SetRect(x, y, x1, y2): only y and y2 reach the viewport
SetRect(t, y, y2) ==
    LET moved == IF y2 - y - skipRows < t.visibleRows
                 THEN IF t.curr - 1 < 0
                      THEN [t EXCEPT !.prev = t.curr - 1, !.curr = 0]
                      ELSE [t EXCEPT !.prev = t.curr, !.curr = t.curr - 1]
                 ELSE t
    IN paintActiveRow([moved EXCEPT !.height = y2 - y,
                                    !.visibleRows = y2 - y - skipRows])

\* a ScrollUp that does not record the previous cursor
ScrollUpNoPrev(t) ==
    paintActiveRow(
        IF t.curr > 0
        THEN [t EXCEPT !.curr = t.curr - 1]
        ELSE IF t.offset > 0
             THEN [t EXCEPT !.offset = t.offset - 1]
             ELSE t)

ScrollUp(t) ==
    paintActiveRow(
        IF t.curr > 0
        THEN [t EXCEPT !.prev = t.curr, !.curr = t.curr - 1]
        ELSE IF t.offset > 0
             THEN [t EXCEPT !.offset = t.offset - 1]
             ELSE t)

\* a ScrollDown whose cursor may move one row below the last visible row
ScrollDownCursorPastEnd(t) ==
    paintActiveRow(
        IF t.curr < t.visibleRows
        THEN [t EXCEPT !.prev = t.curr, !.curr = t.curr + 1]
        ELSE IF t.offset + t.visibleRows < Len(t.out)
             THEN [t EXCEPT !.offset = t.offset + 1]
             ELSE t)

ScrollDown(t) ==
    paintActiveRow(
        IF t.curr < t.visibleRows - 1
        THEN [t EXCEPT !.prev = t.curr, !.curr = t.curr + 1]
        ELSE IF t.offset + t.visibleRows < Len(t.out)
             THEN [t EXCEPT !.offset = t.offset + 1]
             ELSE t)

RECURSIVE RepeatDown(_, _)
RepeatDown(t, n) == IF n <= 0 THEN t ELSE RepeatDown(ScrollDown(t), n - 1)

RECURSIVE RepeatUp(_, _)
RepeatUp(t, n) == IF n <= 0 THEN t ELSE RepeatUp(ScrollUp(t), n - 1)

\* a PageDown that scrolls a whole page of visibleRows rows
PageDownWholePage(t) == RepeatDown(t, t.visibleRows)

\* skip is computed once, before the loop
PageDown(t) == RepeatDown(t, t.visibleRows - 1)

PageUp(t) == RepeatUp(t, t.visibleRows - 1)

InitFilter(t, column, rowsPerEntry) ==
    [t EXCEPT !.filterColumn = column, !.rowsPerEntry = rowsPerEntry]

\* reCalcView; the slice expression out[offset : offset+visibleRows] panics
\* when its bounds leave 0 <= low <= high <= cap(out)
reCalcView(t) ==
    IF Len(t.out) = 0
    THEN t
    ELSE LET v1 == IF t.visibleRows < t.height - skipRows
                   THEN t.height - skipRows ELSE t.visibleRows
             v2 == IF t.offset + v1 > Len(t.out)
                   THEN Len(t.out) - t.offset ELSE v1
             v3 == IF v2 < 0 THEN 0 ELSE v2
             t3 == [t EXCEPT !.visibleRows = v3]
         IN IF t.offset < 0 \/ t.offset + v3 > t.outCap
            THEN [t3 EXCEPT !.panicked = TRUE]
            ELSE [t3 EXCEPT !.Table_Rows =
                     SubSeq(t.out, t.offset + 1, Min(t.offset + v3, Len(t.out)))]

\* the first rows of the entries, as the filter loop of Draw visits them
EntryStarts(t) ==
    {i \in 0..(Len(t.Rows) - 1) : i % t.rowsPerEntry = 0}

\* the loop indexes Rows[i][filterColumn] and Rows[i+r]
FilterLoopPanics(t) ==
    \E i \in EntryStarts(t) :
        \/ Len(t.Rows[i + 1]) <= t.filterColumn
        \/ /\ Contains(t.Rows[i + 1][t.filterColumn + 1], t.filter)
           /\ i + t.rowsPerEntry > Len(t.Rows)

\* a filter loop that keeps only the first row of each matching entry
RECURSIVE FilterFromFirstRow(_, _)
FilterFromFirstRow(t, i) ==
    IF i >= Len(t.Rows)
    THEN <<>>
    ELSE (IF Contains(t.Rows[i + 1][t.filterColumn + 1], t.filter)
          THEN <<t.Rows[i + 1]>>
          ELSE <<>>) \o FilterFromFirstRow(t, i + t.rowsPerEntry)

\* a filter loop that tests every row of an entry
RECURSIVE FilterFromAnyRow(_, _)
FilterFromAnyRow(t, i) ==
    IF i >= Len(t.Rows)
    THEN <<>>
    ELSE (IF \E r \in (i + 1)..(i + t.rowsPerEntry) :
                 Contains(t.Rows[r][t.filterColumn + 1], t.filter)
          THEN SubSeq(t.Rows, i + 1, i + t.rowsPerEntry)
          ELSE <<>>) \o FilterFromAnyRow(t, i + t.rowsPerEntry)

RECURSIVE FilterFrom(_, _)
FilterFrom(t, i) ==
    IF i >= Len(t.Rows)
    THEN <<>>
    ELSE (IF Contains(t.Rows[i + 1][t.filterColumn + 1], t.filter)
          THEN SubSeq(t.Rows, i + 1, i + t.rowsPerEntry)
          ELSE <<>>) \o FilterFrom(t, i + t.rowsPerEntry)

\* a Draw that inserts no placeholder row when nothing matches
DrawFilterNoPlaceholder(t) ==
    IF t.filter # <<>> /\ t.filterColumn >= 0
    THEN IF FilterLoopPanics(t)
         THEN [t EXCEPT !.panicked = TRUE]
         ELSE LET matched == FilterFrom(t, 0)
              IN [t EXCEPT !.out = matched,
                           !.outCap = AppendCap(Len(matched), 0)]
    ELSE [t EXCEPT !.out = t.Rows, !.outCap = Len(t.Rows)]

\* Draw up to and including the assignment of t.out
DrawFilter(t) ==
    IF t.filter # <<>> /\ t.filterColumn >= 0
    THEN IF FilterLoopPanics(t)
         THEN [t EXCEPT !.panicked = TRUE]
         ELSE LET matched == FilterFrom(t, 0)
              IN IF Len(matched) = 0
                 THEN IF Len(t.Table_Rows) # 0
                      THEN [t EXCEPT !.out = <<BlankRow(Len(t.Table_Rows[1]))>>,
                                     !.outCap = 1]
                      ELSE [t EXCEPT !.out = <<>>, !.outCap = 0]
                 ELSE [t EXCEPT !.out = matched,
                                !.outCap = AppendCap(Len(matched), 0)]
    ELSE [t EXCEPT !.out = t.Rows, !.outCap = Len(t.Rows)]

Draw(t) ==
    LET f == DrawFilter(t)
        r == IF f.panicked THEN f ELSE reCalcView(f)
    IN IF r.panicked
       THEN [r EXCEPT !.lastDraw = "panic"]
       ELSE IF Len(r.Table_Rows) = 0
            THEN [r EXCEPT !.lastDraw = "skipped"]
            ELSE [paintActiveRow(r) EXCEPT !.lastDraw = "grid"]

(***************************************************************************)
(* views.TableView (the header table is static and is not modelled; the    *)
(* column widths set by Resize do not reach the viewport).                 *)
(***************************************************************************)
\* gui.SortPanelTopY, the y of the table's top left corner
tableTopY == 8

KeyScrollUp == "<Up>"
KeyScrollDown == "<Down>"
KeyPgup == "<PageUp>"
KeyPgdn == "<PageDown>"

NewTableView(filterCol, rowsPerEntry) ==
    InitFilter(NewTable, filterCol, rowsPerEntry)

\* Resize(w, h): v.table.SetRect(tableTopX, tableTopY, w, h-1)
Resize(v, h) == SetRect(v, tableTopY, h - 1)

\* a Filter that appends the payload without comparing the lengths
FilterWithoutLengthCheck(v, text) ==
    IF Len(text) = 0
    THEN ReduceFilter(v, Len(v.filter))
    ELSE AppendToFilter(v, text)

\* Filter(event): the payload is the full text of the new filter
Filter(v, text) ==
    LET newLen == Len(text)
        oldLen == Len(v.filter)
    IN IF newLen < oldLen
       THEN ReduceFilter(v, oldLen - newLen)
       ELSE IF newLen > oldLen
            THEN AppendToFilter(v, SubSeq(text, oldLen + 1, newLen))
            ELSE v

OnScrollEvent(v, key) ==
    CASE key = KeyScrollUp -> ScrollUp(v)
      [] key = KeyScrollDown -> ScrollDown(v)
      [] key = KeyPgdn -> PageDown(v)
      [] key = KeyPgup -> PageUp(v)
      [] OTHER -> v

\* Update(payload): the assignment made between table.Lock and table.Unlock
Update(v, rows) == [v EXCEPT !.Rows = rows]

(***************************************************************************)
(* Formatting of the data source's samples into row buffers (client.App).  *)
(***************************************************************************)
Interfaces == 0
Nodes == 1
Errors == 2
Memory == 3
Threads == 4

Tabs == {Interfaces, Nodes, Errors, Memory, Threads}

RowsPerIface == 11
RowsPerMemory == 8

\* column constants of the client package
NoColumn == -1
IfaceStatIfaceName == 0
NodeStatNodeName == 0
ErrorStatErrorNodeName == 1
MemoryStatName == 0

\* width in bits of the unsigned counters of the model (uint64 in the source)
CounterBits == 6

RECURSIVE Pow2(_)
Pow2(n) == IF n = 0 THEN 1 ELSE 2 * Pow2(n - 1)

\* unsigned subtraction at the counters' width
USub(a, b) == (a - b) % Pow2(CounterBits)

Digits == <<"0", "1", "2", "3", "4", "5", "6", "7", "8", "9">>

\* fmt.Sprint of an unsigned integer
RECURSIVE Sprint(_)
Sprint(n) == IF n < 10 THEN <<Digits[n + 1]>>
             ELSE Sprint(n \div 10) \o <<Digits[(n % 10) + 1]>>

\* fmt.Sprintf("%d/%d", a, b)
SprintPair(a, b) == Sprint(a) \o <<"/">> \o Sprint(b)

\* strings.Split(s, sep) for a one-character separator
RECURSIVE Split(_, _)
Split(s, sep) ==
    IF \E i \in 1..Len(s) : s[i] = sep
    THEN LET i == CHOOSE k \in 1..Len(s) :
                     s[k] = sep /\ \A j \in 1..(k - 1) : s[j] # sep
         IN <<SubSeq(s, 1, i - 1)>> \o Split(SubSeq(s, i + 1, Len(s)), sep)
    ELSE <<s>>

\* the fields of a format string joined by a one-character separator
RECURSIVE Join(_, _)
Join(fields, sep) ==
    IF Len(fields) = 0 THEN <<>>
    ELSE IF Len(fields) = 1 THEN fields[1]
    ELSE fields[1] \o <<sep>> \o Join(Tail(fields), sep)

\* nameToIdx[name]: a later cache entry of the same name overwrites an earlier
CacheIdx(ifCache, name) ==
    LET hits == {i \in 1..Len(ifCache) : ifCache[i].InterfaceName = name}
    IN IF hits = {} THEN 0 ELSE CHOOSE i \in hits : \A j \in hits : j <= i

\* rows of one interface before the IP addresses are written into column 0
IfaceEntry(iface, ifCache) ==
    LET idx == CacheIdx(ifCache, iface.InterfaceName)
        rxbbs == IF idx = 0 THEN 0 ELSE USub(iface.RxBytes, ifCache[idx].RxBytes)
        txbbs == IF idx = 0 THEN 0 ELSE USub(iface.TxBytes, ifCache[idx].TxBytes)
        rxpps == IF idx = 0 THEN 0 ELSE USub(iface.RxPackets, ifCache[idx].RxPackets)
        txpps == IF idx = 0 THEN 0 ELSE USub(iface.TxPackets, ifCache[idx].TxPackets)
        E == EmptyCell
        Sub(l1, v1, l2, v2) == <<E, E, E, E, l1, v1, l2, v2, E, E, E, E>>
    IN << <<iface.InterfaceName, Sprint(iface.InterfaceIndex), iface.State,
            Join(<<Sprint(iface.MTU[1]), Sprint(iface.MTU[2]),
                   Sprint(iface.MTU[3]), Sprint(iface.MTU[4])>>, "/"),
            <<"P">>, Sprint(iface.RxPackets), <<"P">>, Sprint(iface.TxPackets),
            Sprint(iface.Drops), Sprint(iface.Punts),
            Sprint(iface.IP4), Sprint(iface.IP6)>>,
          Sub(<<"P", "/", "s">>, Sprint(rxpps), <<"P", "/", "s">>, Sprint(txpps)),
          Sub(<<"B">>, Sprint(iface.RxBytes), <<"B">>, Sprint(iface.TxBytes)),
          Sub(<<"B", "/", "s">>, Sprint(rxbbs), <<"B", "/", "s">>, Sprint(txbbs)),
          Sub(<<"E">>, Sprint(iface.RxErrors), <<"E">>, Sprint(iface.TxErrors)),
          Sub(<<"U">>, SprintPair(iface.RxUnicast[1], iface.RxUnicast[2]),
              <<"U">>, SprintPair(iface.TxUnicast[1], iface.TxUnicast[2])),
          Sub(<<"M">>, SprintPair(iface.RxMulticast[1], iface.RxMulticast[2]),
              <<"M">>, SprintPair(iface.TxMulticast[1], iface.TxMulticast[2])),
          Sub(<<"C">>, SprintPair(iface.RxBroadcast[1], iface.RxBroadcast[2]),
              <<"C">>, SprintPair(iface.TxBroadcast[1], iface.TxBroadcast[2])),
          Sub(<<"N">>, Sprint(iface.RxNoBuf), E, E),
          Sub(<<"I">>, Sprint(iface.RxMiss), E, E),
          Sub(E, E, E, E) >>

\* the loop that writes the addresses, last one first, into rows 1..10
IfaceEntryWithIPs(iface, ifCache) ==
    LET e == IfaceEntry(iface, ifCache)
        n == Len(iface.IPAddresses)
    IN [r \in 1..RowsPerIface |->
          IF r >= 2 /\ r - 1 <= n
          THEN [e[r] EXCEPT ![1] = Split(iface.IPAddresses[n - (r - 2)], "/")[1]]
          ELSE e[r]]

RECURSIVE formatInterfacesFrom(_, _, _)
formatInterfacesFrom(ifaces, ifCache, i) ==
    IF i > Len(ifaces) THEN <<>>
    ELSE IfaceEntryWithIPs(ifaces[i], ifCache)
         \o formatInterfacesFrom(ifaces, ifCache, i + 1)

\* formatInterfaces: the rows; the caller's cache becomes ifaces
formatInterfaces(ifaces, ifCache) == formatInterfacesFrom(ifaces, ifCache, 1)

\* "%.2f" of a value kept in hundredths
Sprint2f(h) ==
    Sprint(h \div 100) \o <<".">> \o <<Digits[((h \div 10) % 10) + 1]>>
                       \o <<Digits[(h % 10) + 1]>>

formatNodes(nodes) ==
    [i \in 1..Len(nodes) |->
        Split(Join(<<nodes[i].Name, nodes[i].State, Sprint(nodes[i].Calls),
                     Sprint(nodes[i].Vectors), Sprint(nodes[i].Suspends),
                     Sprint(nodes[i].Clocks),
                     Sprint2f(nodes[i].VectorsPerCall)>>, " "), " ")]

formatErrors(errors) ==
    LET rows == [i \in 1..Len(errors) |->
                    Split(Join(<<Sprint(errors[i].Value), errors[i].Node,
                                 errors[i].Name>>, ";"), ";")]
    IN IF Len(rows) = 0 THEN <<BlankRow(3)>> ELSE rows

\* seven lines of the CLI output make one entry of eight rows, the last nil
formatMemstats(memstats) ==
    LET count == Len(memstats) \div 7
        m(i, k) == memstats[7 * i + k + 1]
    IN [r \in 1..(RowsPerMemory * count) |->
          LET i == (r - 1) \div RowsPerMemory
              k == (r - 1) % RowsPerMemory
          IN IF k = 0 THEN <<m(i, 0), m(i, 1)>>
             ELSE IF k <= 5 THEN <<EmptyCell, m(i, k + 1)>>
             ELSE IF k = 6 THEN <<EmptyCell, EmptyCell>>
             ELSE <<>>]

formatThreads(threads) ==
    [i \in 1..Len(threads) |->
        Split(Join(<<Sprint(threads[i].ID), threads[i].Name, threads[i].Type,
                     Sprint(threads[i].PID), Sprint(threads[i].CPUID),
                     Sprint(threads[i].Core), Sprint(threads[i].CPUSocket)>>,
                   " "), " ")]

(***************************************************************************)
(* Samples of the data source: the values a fetch may return.              *)
(***************************************************************************)
IfaceRec(name, idx, rxp, rxb, txp, txb, ips) ==
    [ InterfaceName |-> name, InterfaceIndex |-> idx, State |-> <<"u", "p">>,
      MTU |-> <<9, 0, 0, 0>>, IPAddresses |-> ips,
      RxPackets |-> rxp, RxBytes |-> rxb, TxPackets |-> txp, TxBytes |-> txb,
      RxErrors |-> 0, TxErrors |-> 0, Drops |-> 0, Punts |-> 0,
      IP4 |-> 0, IP6 |-> 0, RxNoBuf |-> 0, RxMiss |-> 0,
      RxUnicast |-> <<0, 0>>, TxUnicast |-> <<0, 0>>,
      RxMulticast |-> <<0, 0>>, TxMulticast |-> <<0, 0>>,
      RxBroadcast |-> <<0, 0>>, TxBroadcast |-> <<0, 0>> ]

NodeRec(name, calls) ==
    [ Name |-> name, State |-> <<"a">>, Calls |-> calls, Vectors |-> calls,
      Suspends |-> 0, Clocks |-> 2, VectorsPerCall |-> 100, Index |-> 0 ]

ErrorRec(value, node, name) == [ Value |-> value, Node |-> node, Name |-> name ]

ThreadRec(id, name) ==
    [ ID |-> id, Name |-> name, Type |-> <<"w">>, PID |-> 7, CPUID |-> id,
      Core |-> 0, CPUSocket |-> 0 ]

IfaceSamples ==
    { << IfaceRec(<<"a">>, 0, 1, 2, 1, 2, << <<"1", "/", "8">> >>) >>,
      << IfaceRec(<<"b">>, 1, 0, 0, 0, 0, << <<"a", ":", ":", "/", "8">> >>) >> }

NodeSamples ==
    { <<>>,
      << NodeRec(<<"b">>, 2) >>,
      << NodeRec(<<"a">>, 1), NodeRec(<<"b">>, 3), NodeRec(<<"b", "a">>, 2),
         NodeRec(<<"b">>, 0) >> }

ErrorSamples ==
    { <<>>,
      << ErrorRec(1, <<"a">>, <<"x">>), ErrorRec(2, <<"b">>, <<"y">>),
         ErrorRec(3, <<"a", "b">>, <<"z">>), ErrorRec(1, <<"b">>, <<"x">>) >> }

MemLines(name) ==
    << name, <<"t">>, <<"u">>, <<"f">>, <<"r">>, <<"m">>, <<"p">> >>

MemorySamples ==
    { <<>>, MemLines(<<"a">>) }

ThreadSamples ==
    { <<>>,
      << ThreadRec(0, <<"a">>), ThreadRec(1, <<"b">>), ThreadRec(2, <<"b">>),
         ThreadRec(3, <<"b">>) >> }

\* what a provider call returns on success, per tab
Samples(tab) ==
    CASE tab = Interfaces -> IfaceSamples
      [] tab = Nodes -> NodeSamples
      [] tab = Errors -> ErrorSamples
      [] tab = Memory -> MemorySamples
      [] tab = Threads -> ThreadSamples

\* the row buffer a poll cycle hands to Update
Format(tab, sample, ifCache) ==
    CASE tab = Interfaces -> formatInterfaces(sample, ifCache)
      [] tab = Nodes -> formatNodes(sample)
      [] tab = Errors -> formatErrors(sample)
      [] tab = Memory -> formatMemstats(sample)
      [] tab = Threads -> formatThreads(sample)

\* the row buffers the poller hands to the table of a tab when the rate
\* cache is empty (the first cycle, or the cycle after a clear)
RowBuffers(tab) == { Format(tab, s, <<>>) : s \in Samples(tab) }

(***************************************************************************)
(* Sorting of a polled sample (sortInterfaceStats, sortNodeStats,          *)
(* sortErrorStats).  The samples are shorter than 12 elements, where       *)
(* sort.Slice is an insertion sort.                                        *)
(***************************************************************************)
\* the sort items of each tab (the itemsList of its TableView)
ItemsList(tab) ==
    CASE tab = Interfaces ->
            <<"Name", "Index", "State", "MTU-L3", "MTU-IP4", "MTU-IP6",
              "MTU-MPLS", "RxPackets", "RxBytes", "RxErrors",
              "RxUnicast-packets", "RxUnicast-bytes", "RxMulticast-packets",
              "RxMulticast-bytes", "RxBroadcast-packets", "RxBroadcast-bytes",
              "TxPackets", "TxBytes", "TxErrors", "TxUnicastMiss-packets",
              "TxUnicastMiss-bytes", "TxMulticast-packets",
              "TxMulticast-bytes", "TxBroadcast-packets", "TxBroadcast-bytes",
              "Drops", "Punts", "IP4", "IP6">>
      [] tab = Nodes ->
            <<"Name", "State", "Calls", "Vectors", "Suspends", "Clocks",
              "Vectors/Calls">>
      [] tab = Errors -> <<"Counter", "Node", "Reason">>
      [] OTHER -> <<>>

\* the bytes of the model's strings, in their order
Bytes ==
    <<" ", ".", "/", "0", "1", "2", "3", "4", "5", "6", "7", "8", "9",
      "a", "b", "c", "d", "e", "f", "g", "h", "i", "j", "k", "l", "m",
      "n", "o", "p", "q", "r", "s", "t", "u", "v", "w", "x", "y", "z">>

Ord(c) == CHOOSE i \in 1..Len(Bytes) : Bytes[i] = c

\* s < t of two Go strings
RECURSIVE StrLess(_, _)
StrLess(s, t) ==
    IF Len(t) = 0 THEN FALSE
    ELSE IF Len(s) = 0 THEN TRUE
    ELSE IF s[1] = t[1] THEN StrLess(Tail(s), Tail(t))
    ELSE Ord(s[1]) < Ord(t[1])

\* the number of cases in the switch of each sort function; the column
\* constants count from 0 in the order of the sort items
SortCases(tab) ==
    CASE tab = Interfaces -> 29
      [] tab = Nodes -> 7
      [] tab = Errors -> 4
      [] OTHER -> 0

\* the sort function leaves sortFunc nil and sort.Slice calls it
SortPanics(tab, field, sample) ==
    /\ tab \in {Interfaces, Nodes, Errors}
    /\ field # NoColumn
    /\ field \notin 0..(SortCases(tab) - 1)
    /\ Len(sample) >= 2

\* the field a case of the switch compares, as a number or as a string
SortKey(tab, field, rec) ==
    CASE tab = Interfaces /\ field = 0 -> [str |-> rec.InterfaceName, num |-> 0]
      [] tab = Interfaces /\ field = 1 -> [str |-> <<>>, num |-> rec.InterfaceIndex]
      [] tab = Nodes /\ field = 0 -> [str |-> rec.Name, num |-> 0]
      [] tab = Nodes /\ field = 1 -> [str |-> <<>>, num |-> rec.Index]
      [] tab = Nodes /\ field = 2 -> [str |-> <<>>, num |-> rec.Calls]
      [] tab = Nodes /\ field = 3 -> [str |-> <<>>, num |-> rec.Vectors]
      [] tab = Nodes /\ field = 4 -> [str |-> <<>>, num |-> rec.Suspends]
      [] tab = Nodes /\ field = 5 -> [str |-> <<>>, num |-> rec.Clocks]
      [] tab = Nodes /\ field = 6 -> [str |-> <<>>, num |-> rec.VectorsPerCall]
      [] tab = Errors /\ field = 0 -> [str |-> <<>>, num |-> rec.Value]
      [] tab = Errors /\ field = 1 -> [str |-> rec.Node, num |-> 0]
      [] tab = Errors /\ field = 2 -> [str |-> rec.Name, num |-> 0]
      [] OTHER -> [str |-> <<>>, num |-> 0]

\* sortFunc(i, j): ascending a < b, else a > b
Less(tab, field, asc, a, b) ==
    LET x == SortKey(tab, field, IF asc THEN a ELSE b)
        y == SortKey(tab, field, IF asc THEN b ELSE a)
    IN x.num < y.num \/ (x.num = y.num /\ StrLess(x.str, y.str))

\* the inner loop of the insertion sort: x moves left while it is less
RECURSIVE InsertSorted(_, _, _, _, _)
InsertSorted(s, x, tab, field, asc) ==
    IF Len(s) > 0 /\ Less(tab, field, asc, x, s[Len(s)])
    THEN Append(InsertSorted(SubSeq(s, 1, Len(s) - 1), x, tab, field, asc),
                s[Len(s)])
    ELSE Append(s, x)

RECURSIVE InsertionSort(_, _, _, _, _)
InsertionSort(sample, n, tab, field, asc) ==
    IF n = 0 THEN <<>>
    ELSE InsertSorted(InsertionSort(sample, n - 1, tab, field, asc),
                      sample[n], tab, field, asc)

\* sortInterfaceStats, sortNodeStats, sortErrorStats; the memory and thread
\* samples are not sorted
SortStats(tab, sample, s) ==
    IF tab \notin {Interfaces, Nodes, Errors} \/ s.field = NoColumn
       \/ s.field \notin 0..(SortCases(tab) - 1)
    THEN sample
    ELSE InsertionSort(sample, Len(sample), tab, s.field, s.asc)

(***************************************************************************)
(* State.                                                                  *)
(*   w      gui.TermWindow: view (mode), filter_Text (w.filter.Text),      *)
(*          ActiveTabIndex (w.tabPane.ActiveTabIndex), mainView,           *)
(*          stopClosed (the stop channel), tuiClosed (tui.Close has run),  *)
(*          switches (the tab switch keys handled so far),                 *)
(*          sortPanel_Rows, sortPanel_SelectedRow (w.sortPanel)            *)
(*   views  w.views: the xtui.Table of each tab's TableView                *)
(*          (mu is the widget's mutex: "free" or the name of its holder)   *)
(*   app    client.App: currTab, ifCache, vppLock ("free" or its holder),  *)
(*          wg (the wait-group's counter), cancelled (ctx),                *)
(*          sortBy (asc and field of each tab, guarded by sortLock)        *)
(*   fg     the position of the foreground loop (TermWindow.Start)         *)
(*   poller the poll goroutine of App.Run: its position and locals         *)
(*   clears the goroutines spawned by the clear callback, in order         *)
(*   handler the VPP handler: the requests in flight, closed or not        *)
(*   sorts  the goroutines spawned by the sort callback, in order          *)
(*   input  the last keyboard event Start has passed to processInput, and  *)
(*          the number of keyboard events so far                           *)
(*   test   a table of the package's tests (TestTable_ScrollDown, ...):     *)
(*          the table T the calls are made on, the table as it was set up,  *)
(*          the operation called so far (or "mixed") and the number of      *)
(*          calls                                                          *)
(***************************************************************************)
VARIABLES w, views, app, fg, poller, clears, handler, sorts, input, test

vars == <<w, views, app, fg, poller, clears, handler, sorts, input, test>>

background == <<poller, clears, handler>>

\* the terminal heights of the model: from a terminal too short for the
\* table's header rows upwards
TermHeights == (tableTopY + skipRows)..MaxTermHeight

TableViewOf(tab) == [kind |-> "table", tab |-> tab]

ExitView == [kind |-> "exit", tab |-> 0]

\* NewApp: the five table views
NewViews ==
    [tab \in Tabs |->
        CASE tab = Interfaces -> NewTableView(IfaceStatIfaceName, RowsPerIface)
          [] tab = Nodes -> NewTableView(NodeStatNodeName, 1)
          [] tab = Errors -> NewTableView(ErrorStatErrorNodeName, 1)
          [] tab = Memory -> NewTableView(MemoryStatName, RowsPerMemory)
          [] tab = Threads -> NewTableView(NoColumn, 1)]

\* NewTermWindow
NewTermWindow ==
    [ view           |-> "def",
      filter_Text    |-> <<>>,
      ActiveTabIndex |-> 0,
      mainView       |-> TableViewOf(0),
      stopClosed     |-> FALSE,
      tuiClosed      |-> FALSE,
      renderedClosed |-> FALSE,
      switches       |-> 0,
      sortPanel_Rows |-> <<>>,
      sortPanel_SelectedRow |-> 0 ]

\* a sync.Mutex of the App is free or held by the poll goroutine ("poll", 0)
\* or by the n-th clear task ("clear", n)
FreeLock == [by |-> "free", n |-> 0]

HeldBy(by, n) == [by |-> by, n |-> n]

\* a NewApp without the loop that sets asc of every tab
NewAppAscUnset ==
    [ currTab   |-> 0,
      ifCache   |-> <<>>,
      vppLock   |-> [by |-> "free", n |-> 0],
      wg        |-> 0,
      cancelled |-> FALSE,
      sortBy    |-> [tab \in Tabs |-> [asc |-> FALSE, field |-> NoColumn]] ]

\* NewApp
NewApp ==
    [ currTab   |-> 0,
      ifCache   |-> <<>>,
      vppLock   |-> FreeLock,
      wg        |-> 0,
      cancelled |-> FALSE,
      sortBy    |-> [tab \in Tabs |-> [asc |-> ~FALSE, field |-> NoColumn]] ]

\* the poll goroutine when App.Run has started it: at its select
NewPoller ==
    [ pc     |-> "select",
      tab    |-> 0,
      res    |-> <<>>,
      err    |-> FALSE,
      rows   |-> <<>>,
      cycles |-> 0 ]

NewHandler == [inflight |-> {}, closed |-> FALSE]

\* no keyboard event yet
NoInput == [key |-> "", n |-> 0]

\* a test table as set up, before any call
NewTest(t) == [T |-> t, start |-> t, op |-> "", n |-> 0]

\* TermWindow.resize: every view is resized
resize(vs, h) == [tab \in Tabs |-> Resize(vs[tab], h)]

\* the poll cycles started, clear requests, sort requests and tab switches
\* of the run
EventsSoFar ==
    poller.cycles + (IF poller.pc \in {"select", "done"} THEN 0 ELSE 1)
        + Len(clears) + Len(sorts) + w.switches

\* a run-time panic ends the process
Crashed ==
    \/ poller.pc = "panic"
    \/ fg = "panic"
    \/ \E tab \in Tabs : views[tab].panicked

\* the foreground loop is at its select and takes events
Looping == fg = "loop" /\ ~w.stopClosed /\ ~Crashed

(***************************************************************************)
(* The foreground loop: handlers of the key bindings, resize, render.      *)
(* Each handler is guarded by the binding table of the current mode, as    *)
(* processInput looks the key up.                                          *)
(***************************************************************************)
ScrollKeys == {KeyScrollUp, KeyScrollDown, KeyPgup, KeyPgdn}

KeyQuit == "q"
KeyFilter == "/"
KeyCancel == "<Escape>"
KeyDeleteChar == "<Backspace>"
KeyCtrlSpace == "<C-<Space>>"
KeyCtrlC == "<C-c>"
KeyTab == "<Tab>"
KeyEnter == "<Enter>"

\* the text of the keys that have a name; a key of one character is its text
KeyText ==
    (KeyCtrlSpace :> <<"<", "C", "-", "<", "S", "p", "a", "c", "e", ">", ">">>)
    @@ (KeyCtrlC :> <<"<", "C", "-", "c", ">">>)
    @@ (KeyPgup :> <<"<", "P", "a", "g", "e", "U", "p", ">">>)
    @@ (KeyPgdn :> <<"<", "P", "a", "g", "e", "D", "o", "w", "n", ">">>)

\* what handleAppendToFilter appends for a key: "<Space>" is a blank, any
\* other payload is appended as it is
KeyPayload(key) ==
    IF key = "<Space>" THEN <<" ">>
    ELSE IF key \in DOMAIN KeyText THEN KeyText[key]
    ELSE <<key>>

\* default mode, <Up> <Down> <PageUp> <PageDown>
handleScroll(key) ==
    /\ Looping
    /\ w.view = "def"
    /\ key \in ScrollKeys
    /\ w.mainView.kind = "table"
    /\ views' = [views EXCEPT ![w.mainView.tab] = OnScrollEvent(@, key)]
    /\ UNCHANGED <<w, app, fg, background, sorts, test>>

\* default mode, "/"
handleFilterMenu ==
    /\ Looping
    /\ w.view = "def"
    /\ w' = [w EXCEPT !.view = "filter"]
    /\ UNCHANGED <<views, app, fg, background, sorts, test>>

\* filter mode, a key without a binding: the last binding (Any) is called
handleAppendToFilter(key) ==
    /\ Looping
    /\ w.view = "filter"
    /\ Len(w.filter_Text) < MaxFilterLen
    /\ w' = [w EXCEPT !.filter_Text = @ \o KeyPayload(key)]
    /\ UNCHANGED <<views, app, fg, background, sorts, test>>

\* filter mode, <Backspace>
handleReduceFilter ==
    /\ Looping
    /\ w.view = "filter"
    /\ w' = [w EXCEPT !.filter_Text =
                IF Len(@) # 0 THEN SubSeq(@, 1, Len(@) - 1) ELSE @]
    /\ UNCHANGED <<views, app, fg, background, sorts, test>>

\* filter mode, <Enter> or <Escape>
handleFilter ==
    /\ Looping
    /\ w.view = "filter"
    /\ w' = [w EXCEPT !.view = "def"]
    /\ UNCHANGED <<views, app, fg, background, sorts, test>>

\* filter mode, <Up> <Down> <Left> <Right> <Tab>; sort mode, <Escape>
\* Ctrl-Space
handleDefaultMenu ==
    /\ Looping
    /\ w.view \in {"sort", "filter"}
    /\ w' = [w EXCEPT !.view = "def",
                      !.filter_Text = IF w.view = "filter" THEN <<>> ELSE @,
                      !.sortPanel_Rows = IF w.view = "sort" THEN <<"">> ELSE @]
    /\ UNCHANGED <<views, app, fg, background, sorts, test>>

\* a resize event of the terminal
ResizeEvent(h) ==
    /\ Looping
    /\ views' = resize(views, h)
    /\ UNCHANGED <<w, app, fg, background, sorts, input, test>>

\* TermWindow.render for a table view: Filter, then tui.Render locks the
\* table and calls Draw
renderTable(v, text) == Draw(Filter(v, text))

\* a tick of the refresh timer, taken as one step
Render ==
    /\ Looping
    /\ w.mainView.kind = "table"
    /\ views' = [views EXCEPT ![w.mainView.tab] = renderTable(@, w.filter_Text)]
    /\ UNCHANGED <<w, app, fg, background, sorts, input, test>>

\* the poller's TableView.Update of the polled tab, taken as one step
PollerUpdate(rows) ==
    /\ ~Crashed
    /\ views' = [views EXCEPT ![app.currTab] = Update(@, rows)]
    /\ UNCHANGED <<w, app, fg, background, sorts, input, test>>

(***************************************************************************)
(* SpecTable: one table under the foreground loop and the poller's         *)
(* updates.  It starts where the window has been started on a terminal of  *)
(* some height and the user has moved to one of the tabs.                  *)
(***************************************************************************)
InitTable ==
    \E tab \in Tabs, h \in TermHeights :
        /\ w = [NewTermWindow EXCEPT !.ActiveTabIndex = tab,
                                     !.mainView = TableViewOf(tab)]
        /\ views = resize(NewViews, h)
        /\ app = [NewApp EXCEPT !.currTab = tab, !.wg = 1]
        /\ fg = "loop"
        /\ poller = NewPoller
        /\ clears = <<>>
        /\ handler = NewHandler
        /\ sorts = <<>>
        /\ input = NoInput
        /\ test = NewTest(NewTable)

NextTable ==
    \/ \E key \in ScrollKeys : handleScroll(key) /\ UNCHANGED input
    \/ handleFilterMenu /\ UNCHANGED input
    \/ \E key \in TypedChars : handleAppendToFilter(key) /\ UNCHANGED input
    \/ handleReduceFilter /\ UNCHANGED input
    \/ handleFilter /\ UNCHANGED input
    \/ handleDefaultMenu /\ UNCHANGED input
    \/ \E h \in TermHeights : ResizeEvent(h)
    \/ Render
    \/ \E rows \in RowBuffers(app.currTab) : PollerUpdate(rows)

SpecTable == InitTable /\ [][NextTable]_vars

(***************************************************************************)
(* Properties of the table (SpecTable).                                    *)
(***************************************************************************)
\* the table as Draw finds it in a render tick: TableView.Filter has run
PreDraw(tab) == Filter(views[tab], w.filter_Text)

FilterActive(t) == t.filter # <<>> /\ t.filterColumn >= 0

\* no first row of an entry contains the filter text in the filter column
NoMatch(t) ==
    /\ FilterActive(t)
    /\ \A i \in EntryStarts(t) :
          /\ Len(t.Rows[i + 1]) > t.filterColumn
          /\ ~Contains(t.Rows[i + 1][t.filterColumn + 1], t.filter)

IsBlankRow(row) == \A c \in 1..Len(row) : row[c] = EmptyCell

\* C1 (as claimed): in every state every table's cursor satisfies
\* 0 <= cursor < visibleCount, or visibleCount = 0 and cursor = 0.
C1_CursorBound ==
    \A tab \in Tabs :
        LET t == views[tab]
        IN ~t.panicked =>
             \/ 0 <= t.curr /\ t.curr < t.visibleRows
             \/ t.visibleRows = 0 /\ t.curr = 0

\* C2 (as claimed): in every state every table has 0 <= offset and
\* offset + visibleCount <= len(filteredRows).
C2_OffsetBound ==
    \A tab \in Tabs :
        LET t == views[tab]
        IN ~t.panicked =>
             /\ 0 <= t.offset
             /\ t.offset + t.visibleRows <= Len(t.out)

\* C9 (as claimed): the filtered output of every table always has a number of
\* rows that is a multiple of rowsPerEntry, also when no entry matches.
C9_EntryIntegrity ==
    \A tab \in Tabs :
        LET t == views[tab]
        IN Len(t.out) % t.rowsPerEntry = 0

\* C9 (amended): a Draw of a row buffer made of whole entries leaves a
\* filtered output of whole entries when the filter is inactive or some entry
\* matches; when no entry matches the output is the single placeholder row,
\* or empty.
C9_EntryIntegrityAmended ==
    [][Render =>
        LET tab == w.mainView.tab
            pre == PreDraw(tab)
            post == views'[tab]
        IN (Len(pre.Rows) % pre.rowsPerEntry = 0 /\ ~post.panicked) =>
              IF NoMatch(pre)
              THEN Len(post.out) <= 1
              ELSE /\ Len(post.out) % post.rowsPerEntry = 0
                   /\ (FilterActive(pre) => Len(post.out) > 0)]_vars

\* a table of multi-row entries showing the placeholder row
C9_Witness ==
    \E tab \in Tabs :
        /\ views[tab].rowsPerEntry > 1
        /\ FilterActive(views[tab])
        /\ views[tab].lastDraw = "grid"
        /\ Len(views[tab].out) = 1
        /\ Len(views[tab].Rows) >= views[tab].rowsPerEntry

\* C10 (as claimed): a Draw whose active filter matches no entry of a
\* non-empty row buffer hands exactly one blank row to the grid renderer, with
\* the column count of the previous render when there was one.
C10_Placeholder ==
    [][Render =>
        LET tab == w.mainView.tab
            pre == PreDraw(tab)
            post == views'[tab]
        IN (NoMatch(pre) /\ Len(pre.Rows) > 0) =>
              /\ post.lastDraw = "grid"
              /\ Len(post.Table_Rows) = 1
              /\ IsBlankRow(post.Table_Rows[1])
              /\ (Len(pre.Table_Rows) # 0 =>
                    Len(post.Table_Rows[1]) = Len(pre.Table_Rows[1]))]_vars

\* C10 (amended): when the active filter matches no entry, the filtered
\* output is one blank row with as many columns as the first row of the
\* previously rendered slice if that slice is non-empty, and is empty
\* otherwise; the grid renderer is never handed zero rows.
C10_PlaceholderAmended ==
    [][Render =>
        LET tab == w.mainView.tab
            pre == PreDraw(tab)
            post == views'[tab]
        IN /\ NoMatch(pre) =>
                IF Len(pre.Table_Rows) # 0
                THEN post.out = <<BlankRow(Len(pre.Table_Rows[1]))>>
                ELSE post.out = <<>> /\ post.lastDraw # "grid"
           /\ (post.lastDraw = "grid" => Len(post.Table_Rows) > 0)]_vars

\* the placeholder row of a non-empty table is on the screen
C10_Witness ==
    \E tab \in Tabs :
        LET t == views[tab]
        IN /\ NoMatch(t)
           /\ Len(t.Rows) > 0
           /\ t.lastDraw = "grid"
           /\ t.out = <<BlankRow(Len(t.Rows[1]))>>
           /\ t.Table_Rows = t.out

\* the entries (counted from 0) whose first row contains the filter text in
\* the filter column
MatchingEntries(t) ==
    {e \in 0..((Len(t.Rows) \div t.rowsPerEntry) - 1) :
        Contains(t.Rows[e * t.rowsPerEntry + 1][t.filterColumn + 1], t.filter)}

\* all rows of the matching entries, in the order of the row buffer
ConcatOfMatching(t) ==
    LET M == MatchingEntries(t)
        Nth(j) == CHOOSE e \in M : Cardinality({x \in M : x < e}) = j
    IN [k \in 1..(Cardinality(M) * t.rowsPerEntry) |->
          t.Rows[Nth((k - 1) \div t.rowsPerEntry) * t.rowsPerEntry
                 + ((k - 1) % t.rowsPerEntry) + 1]]

\* C11 (as claimed): with a filter column >= 0 and a non-empty filter text
\* the filtered output of a Draw is exactly the rows of the entries whose
\* first row contains the text in the filter column, in order; with an empty
\* text or a filter column < 0 it is the whole row buffer.
C11_FilterExact ==
    [][Render =>
        LET tab == w.mainView.tab
            pre == PreDraw(tab)
            post == views'[tab]
        IN post.out = IF FilterActive(pre) THEN ConcatOfMatching(pre)
                      ELSE pre.Rows]_vars

\* C11 (amended): as claimed when some entry matches or the filter is
\* inactive; when no entry matches, the output is not the empty
\* concatenation but one blank row (empty only when the previously rendered
\* slice is empty).
C11_FilterExactAmended ==
    [][Render =>
        LET tab == w.mainView.tab
            pre == PreDraw(tab)
            post == views'[tab]
        IN IF ~FilterActive(pre) THEN post.out = pre.Rows
           ELSE IF MatchingEntries(pre) # {} THEN post.out = ConcatOfMatching(pre)
           ELSE post.out = IF Len(pre.Table_Rows) # 0
                           THEN <<BlankRow(Len(pre.Table_Rows[1]))>>
                           ELSE <<>>]_vars

\* a drawn table whose filter keeps some entries and drops others
C11_Witness ==
    \E tab \in Tabs :
        LET t == views[tab]
        IN /\ FilterActive(t)
           /\ t.lastDraw = "grid"
           /\ MatchingEntries(t) # {}
           /\ t.out = ConcatOfMatching(t)
           /\ 0 < Len(t.out) /\ Len(t.out) < Len(t.Rows)

\* C28 (as claimed): a render applies the window's filter text to the
\* table; applying the same text once more, the row buffer unchanged, gives
\* the same filtered output and the same offset and cursor.
C28_FilterIdempotent ==
    [][Render =>
        LET once == views'[w.mainView.tab]
            twice == renderTable(once, w.filter_Text)
        IN ~once.panicked =>
              /\ twice.out = once.out
              /\ twice.offset = once.offset
              /\ twice.curr = once.curr]_vars

\* C28 (amended): applying the same text once more gives the same offset
\* and cursor, and the same filtered output unless the filter matches no
\* entry and the first application has left no row on the screen: then the
\* first application's output is the placeholder row, if the screen showed a
\* row before it, and the second's is empty.
C28_FilterIdempotentAmended ==
    [][Render =>
        LET once == views'[w.mainView.tab]
            twice == renderTable(once, w.filter_Text)
        IN ~once.panicked =>
              /\ ~twice.panicked
              /\ twice.offset = once.offset
              /\ twice.curr = once.curr
              /\ twice.out = IF NoMatch(once) /\ Len(once.Table_Rows) = 0
                             THEN <<>>
                             ELSE once.out]_vars

\* a render of a table without a visible row has left the placeholder row
\* as the filtered output, which a second render would not
C28_Witness ==
    \E tab \in Tabs :
        LET t == views[tab]
        IN /\ tab = w.mainView.tab
           /\ t.filter = w.filter_Text
           /\ NoMatch(t)
           /\ Len(t.Rows) > 0
           /\ Len(t.out) = 1
           /\ Len(t.Table_Rows) = 0
           /\ t.lastDraw = "skipped"
           /\ renderTable(t, w.filter_Text).out = <<>>

(***************************************************************************)
(* client.App.Run: the poll goroutine, the tasks of the clear callback,    *)
(* the exit callback, and the requests they send to the VPP handler.       *)
(* The notification widget and its timer are outside the model.            *)
(***************************************************************************)
Request(by, n, op) == [by |-> by, n |-> n, op |-> op]

\* the handler requests of vppProvider.GetInterfaces, GetNodes, GetErrors,
\* GetMemory, GetThreads; GetInterfaces sends its two from two goroutines
FetchOps(tab) ==
    CASE tab = Interfaces -> {"DumpInterfaces", "DumpInterfaceStats"}
      [] tab = Nodes -> {"DumpRuntimeInfo"}
      [] tab = Errors -> {"DumpNodeCounters"}
      [] tab = Memory -> {"RunCli"}
      [] tab = Threads -> {"DumpThreads"}

\* the tabs whose case of the clear task's switch sends requests
ClearableTabs == {Interfaces, Nodes, Errors}

\* the requests of the poller's current provider call still in flight
PollRequests(reqs) ==
    {r \in reqs : r.by = "poll" /\ r.n = poller.cycles}

\* the samples a successful provider call returns: the longest of the tab
PolledSamples(tab) ==
    {s \in Samples(tab) : \A t \in Samples(tab) : Len(t) <= Len(s)}

\* case <-updateTicker
pollTick ==
    /\ poller.pc = "select"
    /\ EventsSoFar < MaxEvents
    /\ ~Crashed
    /\ poller' = [poller EXCEPT !.pc = "lock"]
    /\ UNCHANGED <<w, views, app, fg, clears, handler, sorts, input, test>>

\* a poll goroutine that returns without app.wg.Done()
pollDoneNoSignal ==
    /\ poller.pc = "select"
    /\ app.cancelled
    /\ poller' = [poller EXCEPT !.pc = "done"]
    /\ UNCHANGED <<w, views, app, fg, clears, handler, sorts, input, test>>

\* case <-ctx.Done(): app.wg.Done(); return
pollDone ==
    /\ poller.pc = "select"
    /\ app.cancelled
    /\ poller' = [poller EXCEPT !.pc = "done"]
    /\ app' = [app EXCEPT !.wg = @ - 1]
    /\ UNCHANGED <<w, views, fg, clears, handler, sorts, input, test>>

\* app.vppLock.Lock(); switch currTab()
pollLock ==
    /\ poller.pc = "lock"
    /\ app.vppLock = FreeLock
    /\ app' = [app EXCEPT !.vppLock = HeldBy("poll", 0)]
    /\ poller' = [poller EXCEPT !.pc = "fetch", !.tab = app.currTab,
                                !.err = FALSE]
    /\ UNCHANGED <<w, views, fg, clears, handler, sorts, input, test>>

\* a poller that takes the table's lock before it fetches
pollFetchHoldingTable ==
    /\ poller.pc = "fetch"
    /\ views[poller.tab].mu = "free"
    /\ views' = [views EXCEPT ![poller.tab].mu = "poll"]
    /\ handler' = [handler EXCEPT !.inflight =
          @ \cup {Request("poll", poller.cycles, op) : op \in FetchOps(poller.tab)}]
    /\ poller' = [poller EXCEPT !.pc = "fetching"]
    /\ UNCHANGED <<w, app, fg, clears, sorts, input, test>>

\* the provider call of the tab sends its requests
pollFetch ==
    /\ poller.pc = "fetch"
    /\ handler' = [handler EXCEPT !.inflight =
          @ \cup {Request("poll", poller.cycles, op) : op \in FetchOps(poller.tab)}]
    /\ poller' = [poller EXCEPT !.pc = "fetching"]
    /\ UNCHANGED <<w, views, app, fg, clears, sorts, input, test>>

\* a request of the current provider call returns; the call returns an error
\* on the first failed request, and the sample once all have succeeded
pollReply(req, ok, sample) ==
    /\ poller.pc = "fetching"
    /\ req \in PollRequests(handler.inflight)
    /\ handler' = [handler EXCEPT !.inflight = @ \ {req}]
    /\ poller' =
          IF ~ok
          THEN [poller EXCEPT !.pc = "format", !.err = TRUE, !.res = <<>>]
          ELSE IF PollRequests(handler.inflight) = {req}
               THEN [poller EXCEPT !.pc = "format", !.res = sample]
               ELSE poller
    /\ UNCHANGED <<w, views, app, fg, clears, sorts, input, test>>

\* a request of a provider call that has already returned comes back
leakedReply(req) ==
    /\ req \in handler.inflight
    /\ req.by = "poll"
    /\ req.n # poller.cycles \/ poller.pc # "fetching"
    /\ handler' = [handler EXCEPT !.inflight = @ \ {req}]
    /\ UNCHANGED <<w, views, app, fg, poller, clears, sorts, input, test>>

\* s := app.sortBy[tab] under sortLock, sort and format; formatInterfaces
\* stores the (sorted) sample in the rate cache
pollFormat ==
    /\ poller.pc = "format"
    /\ LET s == app.sortBy[poller.tab]
           sorted == SortStats(poller.tab, poller.res, s)
       IN IF SortPanics(poller.tab, s.field, poller.res)
          THEN /\ poller' = [poller EXCEPT !.pc = "panic"]
               /\ UNCHANGED app
          ELSE /\ poller' = [poller EXCEPT !.pc = "tlock", !.res = <<>>,
                        !.rows = Format(poller.tab, sorted, app.ifCache)]
               /\ app' = [app EXCEPT !.ifCache =
                             IF poller.tab = Interfaces THEN sorted ELSE @]
    /\ UNCHANGED <<w, views, fg, clears, handler, sorts, input, test>>

\* a TableView.Update that does not wait for the table's lock
pollTableLockNoWait ==
    /\ poller.pc = "tlock"
    /\ views' = [views EXCEPT ![poller.tab].mu = "poll"]
    /\ poller' = [poller EXCEPT !.pc = "assign"]
    /\ UNCHANGED <<w, app, fg, clears, handler, sorts, input, test>>

\* TableView.Update: v.table.Lock()
pollTableLock ==
    /\ poller.pc = "tlock"
    /\ views[poller.tab].mu = "free"
    /\ views' = [views EXCEPT ![poller.tab].mu = "poll"]
    /\ poller' = [poller EXCEPT !.pc = "assign"]
    /\ UNCHANGED <<w, app, fg, clears, handler, sorts, input, test>>

\* a cycle that hands its rows to the view of the tab active at the moment
pollAssignCurrentTab ==
    /\ poller.pc = "assign"
    /\ views' = [views EXCEPT ![app.currTab] = Update(@, poller.rows)]
    /\ poller' = [poller EXCEPT !.pc = "tunlock", !.rows = <<>>]
    /\ UNCHANGED <<w, app, fg, clears, handler, sorts, input, test>>

\* TableView.Update: v.table.Rows = rows
pollAssign ==
    /\ poller.pc = "assign"
    /\ views' = [views EXCEPT ![poller.tab] = Update(@, poller.rows)]
    /\ poller' = [poller EXCEPT !.pc = "tunlock", !.rows = <<>>]
    /\ UNCHANGED <<w, app, fg, clears, handler, sorts, input, test>>

\* TableView.Update: v.table.Unlock()
pollTableUnlock ==
    /\ poller.pc = "tunlock"
    /\ views' = [views EXCEPT ![poller.tab].mu = "free"]
    /\ poller' = [poller EXCEPT !.pc = "vunlock"]
    /\ UNCHANGED <<w, app, fg, clears, handler, sorts, input, test>>

\* app.vppLock.Unlock(), back to the select
pollUnlock ==
    /\ poller.pc = "vunlock"
    /\ app' = [app EXCEPT !.vppLock = FreeLock]
    /\ poller' = [poller EXCEPT !.pc = "select", !.cycles = @ + 1,
                                !.err = FALSE]
    /\ UNCHANGED <<w, views, fg, clears, handler, sorts, input, test>>

ClearTasks == 1..Len(clears)

\* a clear task that enters its body without the lock
clearLockNoWait(i) ==
    /\ clears[i].pc = "lock"
    /\ clears' = [clears EXCEPT ![i].pc = "body"]
    /\ UNCHANGED <<w, views, app, fg, poller, handler, sorts, input, test>>

\* the clear task: app.vppLock.Lock()
clearLock(i) ==
    /\ clears[i].pc = "lock"
    /\ app.vppLock = FreeLock
    /\ app' = [app EXCEPT !.vppLock = HeldBy("clear", i)]
    /\ clears' = [clears EXCEPT ![i].pc = "body"]
    /\ UNCHANGED <<w, views, fg, poller, handler, sorts, input, test>>

\* the switch on the tab: ClearInterfaceCounters and ClearRuntimeCounters
\* run a CLI command; ClearErrorCounters dumps the node counters first
\* (updateLastErrors) and then runs its CLI command; the other tabs have no
\* case
clearBody(i) ==
    /\ clears[i].pc \in {"body", "body2"}
    /\ IF clears[i].tab \in ClearableTabs
       THEN /\ handler' = [handler EXCEPT !.inflight = @ \cup
                  {Request("clear", i,
                      IF clears[i].tab = Errors /\ clears[i].pc = "body"
                      THEN "DumpNodeCounters" ELSE "RunCli")}]
            /\ clears' = [clears EXCEPT ![i].pc = "wait"]
       ELSE /\ clears' = [clears EXCEPT ![i].pc = "signal"]
            /\ UNCHANGED handler
    /\ UNCHANGED <<w, views, app, fg, poller, sorts, input, test>>

\* the task's request returns, with or without an error; after
\* ClearInterfaceCounters the task sets app.ifCache = nil
\* a clear task of the interfaces tab that leaves the rate cache alone
clearReplyKeepingCache(i, ok) ==
    /\ clears[i].pc = "wait"
    /\ \E req \in handler.inflight :
          /\ req.by = "clear" /\ req.n = i
          /\ handler' = [handler EXCEPT !.inflight = @ \ {req}]
          /\ clears' = [clears EXCEPT ![i].pc =
                IF req.op = "DumpNodeCounters" THEN "body2" ELSE "signal"]
    /\ UNCHANGED <<w, views, app, fg, poller, sorts, input, test>>

clearReply(i, ok) ==
    /\ clears[i].pc = "wait"
    /\ \E req \in handler.inflight :
          /\ req.by = "clear" /\ req.n = i
          /\ handler' = [handler EXCEPT !.inflight = @ \ {req}]
          /\ clears' = [clears EXCEPT ![i].pc =
                IF req.op = "DumpNodeCounters" THEN "body2" ELSE "signal"]
    /\ app' = [app EXCEPT !.ifCache =
                  IF clears[i].tab = Interfaces THEN <<>> ELSE @]
    /\ UNCHANGED <<w, views, fg, poller, sorts, input, test>>

\* the deferred calls of the task, last first: app.wg.Done()
clearDone(i) ==
    /\ clears[i].pc = "signal"
    /\ app' = [app EXCEPT !.wg = @ - 1]
    /\ clears' = [clears EXCEPT ![i].pc = "unlock"]
    /\ UNCHANGED <<w, views, fg, poller, handler, sorts, input, test>>

\* the deferred calls of the task: app.vppLock.Unlock()
clearUnlock(i) ==
    /\ clears[i].pc = "unlock"
    /\ app' = [app EXCEPT !.vppLock = FreeLock]
    /\ clears' = [clears EXCEPT ![i].pc = "done"]
    /\ UNCHANGED <<w, views, fg, poller, handler, sorts, input, test>>

(***************************************************************************)
(* The foreground loop of SpecApp: tab switch, clear and quit keys, and    *)
(* the render tick in the steps of tui.Render (Lock, Draw, Unlock of the   *)
(* widget).                                                                *)
(***************************************************************************)
KeyTabLeft == "<Left>"
KeyTabRight == "<Right>"

\* tabPane.FocusLeft, tabPane.FocusRight
Focus(index, key) ==
    CASE key = KeyTabLeft -> IF index > 0 THEN index - 1 ELSE index
      [] key = KeyTabRight -> IF index < Cardinality(Tabs) - 1
                              THEN index + 1 ELSE index
      [] OTHER -> index

\* handleTabSwitch of a window whose onTabSwitch callback is not set
handleTabSwitchNoCallback(key) ==
    /\ Looping
    /\ w.view = "def"
    /\ EventsSoFar < MaxEvents
    /\ LET index == Focus(w.ActiveTabIndex, key)
       IN /\ w' = [w EXCEPT !.switches = @ + 1,
                            !.ActiveTabIndex = index,
                            !.filter_Text = <<>>,
                            !.mainView = TableViewOf(index)]
          /\ app' = app
    /\ UNCHANGED <<views, fg, background, sorts, test>>

\* a handleTabSwitch that leaves the filter text alone
handleTabSwitchKeepingFilter(key) ==
    /\ Looping
    /\ w.view = "def"
    /\ EventsSoFar < MaxEvents
    /\ LET index == Focus(w.ActiveTabIndex, key)
       IN /\ w' = [w EXCEPT !.switches = @ + 1,
                            !.ActiveTabIndex = index,
                            !.mainView = TableViewOf(index)]
          /\ app' = [app EXCEPT !.currTab = index]
    /\ UNCHANGED <<views, fg, background, sorts, test>>

\* default mode, <Left> <Right>; the tab switch callback stores the tab in
\* app.currTab under tabLock
handleTabSwitch(key) ==
    /\ Looping
    /\ w.view = "def"
    /\ EventsSoFar < MaxEvents
    /\ LET index == Focus(w.ActiveTabIndex, key)
       IN /\ w' = [w EXCEPT !.switches = @ + 1,
                            !.ActiveTabIndex = index,
                            !.filter_Text = <<>>,
                            !.mainView = TableViewOf(index)]
          /\ app' = [app EXCEPT !.currTab = index]
    /\ UNCHANGED <<views, fg, background, sorts, test>>

\* handleClear with the first tab as the event's payload
handleClearFirstTab ==
    /\ Looping
    /\ w.view = "def"
    /\ EventsSoFar < MaxEvents
    /\ app' = [app EXCEPT !.wg = @ + 1]
    /\ clears' = Append(clears, [tab |-> 0, pc |-> "lock"])
    /\ UNCHANGED <<w, views, fg, poller, handler, sorts, test>>

\* default mode, Ctrl-C; the clear callback adds to the wait-group and
\* starts the task
handleClear ==
    /\ Looping
    /\ w.view = "def"
    /\ EventsSoFar < MaxEvents
    /\ app' = [app EXCEPT !.wg = @ + 1]
    /\ clears' = Append(clears, [tab |-> w.ActiveTabIndex, pc |-> "lock"])
    /\ UNCHANGED <<w, views, fg, poller, handler, sorts, test>>

\* default mode, q: close(stop), the exit view, the exit callback up to its
\* app.wg.Wait()
handleExit ==
    /\ Looping
    /\ w.view = "def"
    /\ w' = [w EXCEPT !.stopClosed = TRUE, !.mainView = ExitView]
    /\ app' = [app EXCEPT !.cancelled = TRUE]
    /\ fg' = "wait"
    /\ UNCHANGED <<views, background, sorts, test>>

\* an exit callback that does not wait for the wait-group
onExitDestroyNoWait ==
    /\ fg = "wait"
    /\ w' = [w EXCEPT !.tuiClosed = TRUE]
    /\ fg' = "disconnect"
    /\ UNCHANGED <<views, app, background, sorts, input, test>>

\* the exit callback: app.wg.Wait() returns, app.gui.Destroy()
onExitDestroy ==
    /\ fg = "wait"
    /\ app.wg = 0
    /\ w' = [w EXCEPT !.tuiClosed = TRUE]
    /\ fg' = "disconnect"
    /\ UNCHANGED <<views, app, background, sorts, input, test>>

\* the exit callback: app.vppProvider.Disconnect(); handleExit returns
onExitDisconnect ==
    /\ fg = "disconnect"
    /\ handler' = [handler EXCEPT !.closed = TRUE]
    /\ fg' = "loop"
    /\ UNCHANGED <<w, views, app, poller, clears, sorts, input, test>>

\* Start: case <-w.stop: return
StartReturn ==
    /\ fg = "loop"
    /\ w.stopClosed
    /\ fg' = "stopped"
    /\ UNCHANGED <<w, views, app, background, sorts, input, test>>

\* render: w.mainView.Filter(w.filter.Text), which touches fields of the
\* table that only the foreground uses, then tui.Render: item.Lock()
renderLock ==
    /\ Looping
    /\ w.mainView.kind = "table"
    /\ views[w.mainView.tab].mu = "free"
    /\ views' = [views EXCEPT ![w.mainView.tab] =
                    [Filter(@, w.filter_Text) EXCEPT !.mu = "fg"]]
    /\ fg' = "draw"
    /\ UNCHANGED <<w, app, background, sorts, input, test>>

\* tui.Render: item.Draw(buf)
renderDraw ==
    /\ fg = "draw"
    /\ views' = [views EXCEPT ![w.mainView.tab] = Draw(@)]
    /\ fg' = "runlock"
    /\ UNCHANGED <<w, app, background, sorts, input, test>>

\* tui.Render: item.Unlock()
renderUnlock ==
    /\ fg = "runlock"
    /\ views' = [views EXCEPT ![w.mainView.tab].mu = "free"]
    /\ fg' = "loop"
    /\ UNCHANGED <<w, app, background, sorts, input, test>>

(***************************************************************************)
(* The sort overlay, the tasks of the sort callback, and processInput,     *)
(* which looks a key up in the bindings of the current mode.               *)
(***************************************************************************)
\* default mode, Ctrl-Space
handleSortMenu ==
    /\ Looping
    /\ w.view = "def"
    /\ w' = [w EXCEPT !.view = "sort",
                      !.sortPanel_Rows = ItemsList(w.mainView.tab)]
    /\ UNCHANGED <<views, app, fg, background, sorts, test>>

\* sortPanel.ScrollUp, sortPanel.ScrollDown: List.ScrollAmount(-1 or 1)
ScrollAmount(selected, rows, amount) ==
    IF Len(rows) - selected <= amount THEN Len(rows) - 1
    ELSE IF selected + amount < 0 THEN 0
    ELSE selected + amount

\* sort mode, <Up> <Down> <PageUp> <PageDown>
handleSortPanelScroll(key) ==
    /\ Looping
    /\ w.view = "sort"
    /\ key \in ScrollKeys
    /\ LET sel == w.sortPanel_SelectedRow
           rows == w.sortPanel_Rows
       IN w' = [w EXCEPT !.sortPanel_SelectedRow =
                   CASE key = KeyScrollUp -> ScrollAmount(sel, rows, -1)
                     [] key = KeyScrollDown ->
                            IF Len(rows) # 0 THEN ScrollAmount(sel, rows, 1)
                            ELSE sel
                     [] key = KeyPgdn -> 0
                     [] key = KeyPgup -> Len(rows) - 1]
    /\ UNCHANGED <<views, app, fg, background, sorts, test>>

\* a handleSort that also closes the overlay
handleSortClosing ==
    /\ Looping
    /\ w.view = "sort"
    /\ EventsSoFar < MaxEvents
    /\ w' = [w EXCEPT !.view = "def"]
    /\ app' = [app EXCEPT !.wg = @ + 1]
    /\ sorts' = Append(sorts, [tab |-> w.ActiveTabIndex,
                               row |-> w.sortPanel_SelectedRow,
                               pc |-> "lock"])
    /\ UNCHANGED <<views, fg, background, test>>

\* sort mode, <Enter>: the sort callback adds to the wait-group and starts
\* the task with the selected row and the current tab
handleSort ==
    /\ Looping
    /\ w.view = "sort"
    /\ EventsSoFar < MaxEvents
    /\ app' = [app EXCEPT !.wg = @ + 1]
    /\ sorts' = Append(sorts, [tab |-> w.ActiveTabIndex,
                               row |-> w.sortPanel_SelectedRow,
                               pc |-> "lock"])
    /\ UNCHANGED <<w, views, fg, background, test>>

SortTasks == 1..Len(sorts)

\* the tabs with a case in the sort task's switch
SortableTabs == {Interfaces, Nodes, Errors}

\* a sort task that stores the row and keeps the direction
sortApplyKeepingDirection(i) ==
    /\ sorts[i].pc = "lock"
    /\ app' = [app EXCEPT !.sortBy =
          IF sorts[i].tab \in SortableTabs
          THEN [@ EXCEPT ![sorts[i].tab] = [asc |-> @.asc, field |-> sorts[i].row]]
          ELSE @]
    /\ sorts' = [sorts EXCEPT ![i].pc = "signal"]
    /\ UNCHANGED <<w, views, fg, background, input, test>>

\* the sort task between sortLock.Lock() and sortLock.Unlock(): the field
\* is the selected row, the direction is negated
sortApply(i) ==
    /\ sorts[i].pc = "lock"
    /\ app' = [app EXCEPT !.sortBy =
          IF sorts[i].tab \in SortableTabs
          THEN [@ EXCEPT ![sorts[i].tab] =
                   [asc |-> ~@.asc, field |-> sorts[i].row]]
          ELSE @]
    /\ sorts' = [sorts EXCEPT ![i].pc = "signal"]
    /\ UNCHANGED <<w, views, fg, background, input, test>>

\* the deferred app.wg.Done() of the sort task
sortDone(i) ==
    /\ sorts[i].pc = "signal"
    /\ app' = [app EXCEPT !.wg = @ - 1]
    /\ sorts' = [sorts EXCEPT ![i].pc = "done"]
    /\ UNCHANGED <<w, views, fg, background, input, test>>

\* default bindings without the quit key
defaultKeybindingsNoQuit ==
    (KeyCtrlSpace :> "handleSortMenu")
    @@ (KeyScrollDown :> "handleScroll") @@ (KeyScrollUp :> "handleScroll")
    @@ (KeyPgup :> "handleScroll") @@ (KeyPgdn :> "handleScroll")
    @@ (KeyTabLeft :> "handleTabSwitch") @@ (KeyTabRight :> "handleTabSwitch")
    @@ (KeyFilter :> "handleFilterMenu") @@ (KeyCtrlC :> "handleClear")

\* the bindings of the three modes: the callback of each bound key
defaultKeybindings ==
    (KeyQuit :> "handleExit") @@ (KeyCtrlSpace :> "handleSortMenu")
    @@ (KeyScrollDown :> "handleScroll") @@ (KeyScrollUp :> "handleScroll")
    @@ (KeyPgup :> "handleScroll") @@ (KeyPgdn :> "handleScroll")
    @@ (KeyTabLeft :> "handleTabSwitch") @@ (KeyTabRight :> "handleTabSwitch")
    @@ (KeyFilter :> "handleFilterMenu") @@ (KeyCtrlC :> "handleClear")

\* bindings of the filter mode in which <Enter> discards the text
filterKeybindingsEnterDiscards ==
    (KeyCancel :> "handleFilter")
    @@ (KeyScrollUp :> "handleDefaultMenu")
    @@ (KeyScrollDown :> "handleDefaultMenu")
    @@ (KeyTabLeft :> "handleDefaultMenu")
    @@ (KeyTabRight :> "handleDefaultMenu")
    @@ (KeyEnter :> "handleDefaultMenu") @@ (KeyTab :> "handleDefaultMenu")
    @@ (KeyDeleteChar :> "handleReduceFilter")

\* the last binding, Any, is the one processInput calls for an unbound key
filterKeybindings ==
    (KeyCancel :> "handleFilter") @@ (KeyScrollUp :> "handleDefaultMenu")
    @@ (KeyScrollDown :> "handleDefaultMenu")
    @@ (KeyTabLeft :> "handleDefaultMenu")
    @@ (KeyTabRight :> "handleDefaultMenu")
    @@ (KeyEnter :> "handleFilter") @@ (KeyTab :> "handleDefaultMenu")
    @@ (KeyDeleteChar :> "handleReduceFilter")

\* sort bindings whose <Escape> confirms the sort
sortKeybindingsEscapeSorts ==
    (KeyCancel :> "handleSort") @@ (KeyCtrlSpace :> "handleDefaultMenu")
    @@ (KeyEnter :> "handleSort")
    @@ (KeyScrollDown :> "handleSortPanelScroll")
    @@ (KeyScrollUp :> "handleSortPanelScroll")
    @@ (KeyPgup :> "handleSortPanelScroll")
    @@ (KeyPgdn :> "handleSortPanelScroll")

sortKeybindings ==
    (KeyCancel :> "handleDefaultMenu") @@ (KeyCtrlSpace :> "handleDefaultMenu")
    @@ (KeyEnter :> "handleSort")
    @@ (KeyScrollDown :> "handleSortPanelScroll")
    @@ (KeyScrollUp :> "handleSortPanelScroll")
    @@ (KeyPgup :> "handleSortPanelScroll")
    @@ (KeyPgdn :> "handleSortPanelScroll")

\* w.keybindings: every handler that changes the mode sets the bindings of
\* the new mode
Keybindings(view) ==
    CASE view = "def" -> defaultKeybindings
      [] view = "filter" -> filterKeybindings
      [] view = "sort" -> sortKeybindings

\* keybinding.callback(Event{Payload: key})
Callback(name, key) ==
    CASE name = "handleExit" -> handleExit
      [] name = "handleSortMenu" -> handleSortMenu
      [] name = "handleScroll" -> handleScroll(key)
      [] name = "handleTabSwitch" -> handleTabSwitch(key)
      [] name = "handleFilterMenu" -> handleFilterMenu
      [] name = "handleClear" -> handleClear
      [] name = "handleFilter" -> handleFilter
      [] name = "handleDefaultMenu" -> handleDefaultMenu
      [] name = "handleReduceFilter" -> handleReduceFilter
      [] name = "handleSort" -> handleSort
      [] name = "handleSortPanelScroll" -> handleSortPanelScroll(key)

\* processInput without the filter mode's call of the last binding: a key
\* that has no binding is ignored in every mode
processInputBoundOnly(key) ==
    /\ Looping
    /\ LET bindings == Keybindings(w.view)
       IN IF key \in DOMAIN bindings
          THEN Callback(bindings[key], key)
          ELSE UNCHANGED <<w, views, app, fg, background, sorts, test>>

\* processInput(key): in filter mode a key without a binding goes to the
\* last binding; otherwise the callback of the key, if it has one
processInput(key) ==
    /\ Looping
    /\ LET bindings == Keybindings(w.view)
       IN IF w.view = "filter" /\ key \notin DOMAIN bindings
          THEN handleAppendToFilter(key)
          ELSE IF key \in DOMAIN bindings
               THEN Callback(bindings[key], key)
               ELSE UNCHANGED <<w, views, app, fg, background, sorts, test>>

\* Start: a keyboard event of w.windowEvents
keyEvent(key) ==
    /\ input.n < MaxKeys
    /\ processInput(key)
    /\ input' = [key |-> key, n |-> input.n + 1]

\* a poll cycle taken as one step: fetch, sort, format and Update of the
\* current tab, under vppLock
pollCycle(sample) ==
    /\ ~Crashed
    /\ poller.pc = "select"
    /\ app.vppLock = FreeLock
    /\ LET tab == app.currTab
           s == app.sortBy[tab]
           sorted == SortStats(tab, sample, s)
       IN IF SortPanics(tab, s.field, sample)
          THEN /\ poller' = [poller EXCEPT !.pc = "panic"]
               /\ UNCHANGED <<views, app>>
          ELSE /\ views' = [views EXCEPT ![tab] =
                              Update(@, Format(tab, sorted, app.ifCache))]
               /\ app' = [app EXCEPT !.ifCache =
                             IF tab = Interfaces THEN sorted ELSE @]
               /\ UNCHANGED poller
    /\ UNCHANGED <<w, fg, clears, handler, sorts, input, test>>

(***************************************************************************)
(* SpecApp: the application from App.Run on, on a terminal of the largest  *)
(* height, with the poller, the clear tasks and the quit sequence.         *)
(***************************************************************************)
InitApp ==
  \E tab \in Tabs :
    /\ w = [NewTermWindow EXCEPT !.ActiveTabIndex = tab,
                                 !.mainView = TableViewOf(tab)]
    /\ views = resize(NewViews, MaxTermHeight)
    /\ app = [NewApp EXCEPT !.currTab = tab, !.wg = 1]
    /\ fg = "loop"
    /\ poller = NewPoller
    /\ clears = <<>>
    /\ handler = NewHandler
    /\ sorts = <<>>
    /\ input = NoInput
    /\ test = NewTest(NewTable)

NextApp ==
    \/ pollTick
    \/ pollDone
    \/ pollLock
    \/ pollFetch
    \/ \E req \in handler.inflight, ok \in BOOLEAN :
          \E sample \in (IF ok THEN PolledSamples(poller.tab) ELSE {<<>>}) :
              pollReply(req, ok, sample)
    \/ \E req \in handler.inflight : leakedReply(req)
    \/ pollFormat
    \/ pollTableLock
    \/ pollAssign
    \/ pollTableUnlock
    \/ pollUnlock
    \/ \E i \in ClearTasks : clearLock(i)
    \/ \E i \in ClearTasks : clearBody(i)
    \/ \E i \in ClearTasks, ok \in BOOLEAN : clearReply(i, ok)
    \/ \E i \in ClearTasks : clearDone(i)
    \/ \E i \in ClearTasks : clearUnlock(i)
    \/ \E key \in {KeyTabLeft, KeyTabRight} : handleTabSwitch(key) /\ UNCHANGED input
    \/ handleClear /\ UNCHANGED input
    \/ handleExit /\ UNCHANGED input
    \/ onExitDestroy
    \/ onExitDisconnect
    \/ StartReturn
    \/ renderLock
    \/ renderDraw
    \/ renderUnlock

SpecApp == InitApp /\ [][NextApp]_vars

(***************************************************************************)
(* Properties of the application (SpecApp).                                *)
(***************************************************************************)
\* the poll goroutine is between app.vppLock.Lock() and app.vppLock.Unlock()
CyclePCs == {"fetch", "fetching", "format", "tlock", "assign", "tunlock",
             "vunlock"}

\* the poll goroutine is between v.table.Lock() and v.table.Unlock()
UpdatePCs == {"assign", "tunlock"}

\* a clear task is between app.vppLock.Lock() and app.vppLock.Unlock()
ClearPCs == {"body", "wait", "body2", "signal", "unlock"}

\* C3: a poll cycle and a clear task never execute concurrently: the poller
\* is inside a cycle only as holder of vppLock, and a clear task is inside
\* its body only as holder of vppLock.
C3_PollClearExclusion ==
    /\ poller.pc \in CyclePCs => app.vppLock = HeldBy("poll", 0)
    /\ \A i \in ClearTasks :
          clears[i].pc \in ClearPCs => app.vppLock = HeldBy("clear", i)
    /\ ~(poller.pc \in CyclePCs /\ \E i \in ClearTasks : clears[i].pc \in ClearPCs)

\* a clear request is in flight while the poller waits for the lock
C3_Witness ==
    /\ poller.pc = "lock"
    /\ \E i \in ClearTasks :
          /\ clears[i].pc = "wait"
          /\ Request("clear", i, "RunCli") \in handler.inflight

\* C4 (as claimed): at most one request to the VPP handler is in flight.
C4_OneInFlight == Cardinality(handler.inflight) <= 1

\* C5: the terminal is destroyed only after cancellation and after the poll
\* task and every clear task have signalled the wait-group, and no Update
\* replaces a row buffer once it is destroyed.
C5_DestroyAfterTasks ==
    /\ [](w.tuiClosed =>
            /\ app.cancelled
            /\ poller.pc = "done"
            /\ \A i \in ClearTasks : clears[i].pc \in {"unlock", "done"})
    /\ [][w.tuiClosed =>
            \A tab \in Tabs : views'[tab].Rows = views[tab].Rows]_vars

\* the terminal is destroyed after a poll cycle and a clear task have run;
\* the task has signalled and still has its deferred unlock to do
C5_Witness ==
    /\ w.tuiClosed
    /\ poller.pc = "done" /\ poller.cycles > 0
    /\ \E i \in ClearTasks : clears[i].pc = "unlock"

\* C6: the replacement of a table's row buffer and its Draw are mutually
\* exclusive: the poller is inside Update only as holder of the table's lock
\* and the foreground is inside Draw only as holder of that lock.
C6_UpdateDrawExclusion ==
    /\ poller.pc \in UpdatePCs => views[poller.tab].mu = "poll"
    /\ fg \in {"draw", "runlock"} => views[w.mainView.tab].mu = "fg"
    /\ ~(/\ poller.pc \in UpdatePCs
         /\ fg \in {"draw", "runlock"}
         /\ poller.tab = w.mainView.tab)

\* the poller waits with new rows for the lock of the table being drawn
C6_Witness ==
    /\ fg = "draw"
    /\ poller.pc = "tlock"
    /\ poller.tab = w.mainView.tab
    /\ poller.rows # <<>>

\* C7: a render tick never waits for a fetch or a clear: a table's lock is
\* held by the poller only inside Update, and outside the poller's Update the
\* render tick of the foreground loop can take the lock of the active table.
C7_RenderNeverWaitsForFetch ==
    /\ \A tab \in Tabs : views[tab].mu = "poll" => poller.pc \in UpdatePCs
    /\ (Looping /\ w.mainView.kind = "table" /\ poller.pc \notin UpdatePCs)
          => views[w.mainView.tab].mu = "free"

\* a Draw of committed rows has completed while the fetch for the same tab is
\* in flight and a clear task waits for the lock
C7_Witness ==
    /\ fg = "runlock"
    /\ views[w.mainView.tab].lastDraw = "grid"
    /\ views[w.mainView.tab].out = views[w.mainView.tab].Rows
    /\ poller.pc = "fetching"
    /\ poller.tab = w.mainView.tab
    /\ PollRequests(handler.inflight) # {}
    /\ \E i \in ClearTasks : clears[i].pc = "lock"

\* C8 (as claimed): a poll cycle whose fetch failed changes no row buffer and
\* not the interface rate cache.
C8_FailedFetchSkipsCycle ==
    [][(poller.err /\ poller.pc \in CyclePCs) =>
          /\ \A tab \in Tabs : views'[tab].Rows = views[tab].Rows
          /\ app'.ifCache = app.ifCache]_vars

(***************************************************************************)
(* SpecKeys: the window from Start on, on a terminal of the largest        *)
(* height, under keyboard events of every bound key and of a printable     *)
(* key, with the render tick and the poll cycle taken as one step each,    *)
(* the tasks of the sort and clear callbacks, and the quit sequence.       *)
(***************************************************************************)
Keys ==
    {KeyQuit, KeyCtrlSpace, KeyScrollDown, KeyScrollUp, KeyPgup, KeyPgdn,
     KeyTabLeft, KeyTabRight, KeyFilter, KeyCtrlC, KeyCancel, KeyEnter,
     KeyTab, KeyDeleteChar, "a"}

InitKeys ==
    /\ w = NewTermWindow
    /\ views = resize(NewViews, MaxTermHeight)
    /\ app = [NewApp EXCEPT !.wg = 1]
    /\ fg = "loop"
    /\ poller = NewPoller
    /\ clears = <<>>
    /\ handler = NewHandler
    /\ sorts = <<>>
    /\ input = NoInput
    /\ test = NewTest(NewTable)

NextKeys ==
    \/ \E key \in Keys : keyEvent(key)
    \/ Render
    \/ \E sample \in PolledSamples(app.currTab) : pollCycle(sample)
    \/ pollDone
    \/ \E i \in SortTasks : sortApply(i)
    \/ \E i \in SortTasks : sortDone(i)
    \/ \E i \in ClearTasks : clearLock(i)
    \/ \E i \in ClearTasks : clearBody(i)
    \/ \E i \in ClearTasks, ok \in BOOLEAN : clearReply(i, ok)
    \/ \E i \in ClearTasks : clearDone(i)
    \/ \E i \in ClearTasks : clearUnlock(i)
    \/ onExitDestroy
    \/ onExitDisconnect
    \/ StartReturn

SpecKeys == InitKeys /\ [][NextKeys]_vars

(***************************************************************************)
(* SpecSort: a session of the sort overlay on one of the tabs: the keys    *)
(* bound in the sort mode, the tasks of the sort callback, and the poll    *)
(* cycle and the render tick taken as one step each.                       *)
(***************************************************************************)
SortSessionKeys ==
    {KeyCtrlSpace, KeyEnter, KeyCancel, KeyScrollUp, KeyScrollDown, KeyPgup,
     KeyPgdn}

NextSort ==
    \/ \E key \in SortSessionKeys : keyEvent(key)
    \/ \E i \in SortTasks : sortApply(i)
    \/ \E i \in SortTasks : sortDone(i)
    \/ \E sample \in PolledSamples(app.currTab) : pollCycle(sample)
    \/ Render

SpecSort == InitApp /\ [][NextSort]_vars

(***************************************************************************)
(* Properties of the sort requests (SpecSort).                             *)
(***************************************************************************)
\* C14: the task of each sort confirm carries the active tab and the
\* overlay's selected row of the moment of the confirm; when it runs on a
\* sortable tab it sets that tab's sortBy to field = that row and asc = the
\* negation of the tab's asc, whatever the row, and leaves the sortBy of
\* every other tab unchanged; nothing else changes sortBy.
C14_SortConfirm ==
    /\ [][(w.view = "sort" /\ keyEvent(KeyEnter)) =>
             /\ Len(sorts') = Len(sorts) + 1
             /\ sorts'[Len(sorts')].tab = w.ActiveTabIndex
             /\ sorts'[Len(sorts')].row = w.sortPanel_SelectedRow]_vars
    /\ [][\A i \in SortTasks :
             (sorts[i].pc = "lock" /\ sorts'[i].pc # "lock") =>
                LET tab == sorts[i].tab
                IN /\ tab \in {Interfaces, Nodes, Errors} =>
                        /\ app'.sortBy[tab].field = sorts[i].row
                        /\ app'.sortBy[tab].asc = ~app.sortBy[tab].asc
                   /\ \A other \in Tabs :
                        (other # tab \/ tab \notin {Interfaces, Nodes, Errors})
                           => app'.sortBy[other] = app.sortBy[other]]_vars
    /\ [][app'.sortBy # app.sortBy =>
             \E i \in SortTasks :
                sorts[i].pc = "lock" /\ sorts'[i].pc # "lock"]_vars

\* a confirm on a row other than the first has been applied to its tab
C14_Witness ==
    \E i \in SortTasks :
        /\ sorts[i].pc = "done"
        /\ sorts[i].row > 0
        /\ sorts[i].tab \in {Interfaces, Nodes, Errors}
        /\ app.sortBy[sorts[i].tab] = [asc |-> FALSE, field |-> sorts[i].row]

\* the rows are in non-decreasing (non-increasing) order of column c
NonDecreasing(rows, c) ==
    \A i \in 1..(Len(rows) - 1) : ~StrLess(rows[i + 1][c + 1], rows[i][c + 1])

NonIncreasing(rows, c) ==
    \A i \in 1..(Len(rows) - 1) : ~StrLess(rows[i][c + 1], rows[i + 1][c + 1])

\* every sort confirm of the run so far was on the current tab and on
\* column c, and its task has run
ConfirmedOnly(c) ==
    \A i \in SortTasks :
        sorts[i].tab = app.currTab /\ sorts[i].row = c /\ sorts[i].pc # "lock"

\* the tabs and columns whose sort key is the text of the table's column
TextColumns ==
    {<<Nodes, 0>>, <<Errors, 1>>, <<Errors, 2>>}

Exiting(win, a) == win.stopClosed /\ win.mainView = ExitView /\ a.cancelled

\* C12 (as claimed): from every mode the quit key q leads to the exiting
\* state: the exit view replaces the active view and the exit callback fires.
C12_QuitFromEveryMode ==
    [][keyEvent(KeyQuit) => Exiting(w', app')]_vars

\* C12 (amended): in the default mode q leads to the exiting state; in the
\* filter overlay q is appended to the filter text and in the sort overlay
\* it has no effect, the mode and the main view staying as they are.
C12_QuitFromDefault ==
    [][keyEvent(KeyQuit) =>
        CASE w.view = "def" -> Exiting(w', app') /\ fg' = "wait"
          [] w.view = "filter" ->
                /\ w' = [w EXCEPT !.filter_Text = @ \o <<"q">>]
                /\ UNCHANGED <<app, fg>>
          [] w.view = "sort" -> UNCHANGED <<w, app, fg>>]_vars

\* q has been pressed in the default mode
C12_Witness ==
    /\ input.key = KeyQuit
    /\ Exiting(w, app)
    /\ fg = "wait"

\* C13 (as claimed): in the sort overlay the confirm key <Enter> moves the
\* mode to default.
C13_ConfirmClosesOverlay ==
    [][(w.view = "sort" /\ keyEvent(KeyEnter)) => w'.view = "def"]_vars

\* C13 (amended): in the sort overlay <Enter> starts the sort task for the
\* active tab and the selected row and leaves the mode, the overlay list and
\* the selected row as they are; the overlay is closed by <Escape> or
\* Ctrl-Space.
C13_ConfirmKeepsOverlay ==
    [][(w.view = "sort" /\ keyEvent(KeyEnter)) =>
          /\ w' = w
          /\ sorts' = Append(sorts, [tab |-> w.ActiveTabIndex,
                                     row |-> w.sortPanel_SelectedRow,
                                     pc |-> "lock"])]_vars
    /\ [][(w.view = "sort" /\ w'.view = "def") =>
             input'.key \in {KeyCancel, KeyCtrlSpace}]_vars

\* <Enter> has been pressed in the sort overlay, which is still open
C13_Witness ==
    /\ input.key = KeyEnter
    /\ w.view = "sort"
    /\ Len(sorts) > 0

\* the text of the table filter of the window's main view
TableFilter(vs, win) == vs[win.mainView.tab].filter

\* C16: in the filter overlay the cancel key <Escape> returns to the default
\* mode and clears the filter text, so that the next render shows the active
\* table unfiltered.
C16_CancelClearsFilter ==
    /\ [][(w.view = "filter" /\ keyEvent(KeyCancel)) =>
             w'.view = "def" /\ w'.filter_Text = <<>>]_vars
    /\ [][(Render /\ input.key = KeyCancel) => TableFilter(views', w) = <<>>]_vars

\* C17: in the filter overlay the confirm key <Enter> returns to the default
\* mode and changes nothing else of the window, the filter text included, and
\* nothing of the tables; a table filtered by that text stays filtered by it
\* over the renders of the default mode.
C17_ConfirmKeepsFilter ==
    /\ [][(w.view = "filter" /\ keyEvent(KeyEnter)) =>
             /\ w' = [w EXCEPT !.view = "def"]
             /\ views' = views]_vars
    /\ [][(Render /\ w.view = "def"
                /\ TableFilter(views, w) = w.filter_Text) =>
             TableFilter(views', w) = w.filter_Text]_vars

\* <Enter> has closed the filter overlay on a text that is not empty and a
\* render has applied the text to the table
C17_Witness ==
    /\ input.key = KeyEnter
    /\ w.view = "def"
    /\ w.filter_Text # <<>>
    /\ TableFilter(views, w) = w.filter_Text

\* the keys of the keyboard events that stand for a printable character
PrintableKeys == {KeyQuit, KeyFilter, "a"}

\* C18 (as claimed): in the filter overlay a printable key keeps the mode,
\* is appended to the filter text, and the new text is the filter of the
\* active table as soon as the key has been handled.
C18_AppendAppliedAtOnce ==
    [][\A key \in PrintableKeys :
          (w.view = "filter" /\ keyEvent(key)) =>
             /\ w' = [w EXCEPT !.filter_Text = @ \o <<key>>]
             /\ TableFilter(views', w') = w'.filter_Text]_vars

\* s is the beginning of t
IsPrefix(s, t) == Len(s) <= Len(t) /\ SubSeq(t, 1, Len(s)) = s

\* C18 (amended): in the filter overlay a printable key keeps the mode and
\* is appended to the filter text, the tables being left as they are; it is
\* the next render that changes the filter of the active table: it gives it
\* the length of the text, and makes it the text when the filter the table
\* had is the beginning of the text, as it is after keys that were appended.
C18_AppendAppliedAtRender ==
    /\ [][\A key \in PrintableKeys :
             (w.view = "filter" /\ keyEvent(key)) =>
                /\ w' = [w EXCEPT !.filter_Text = @ \o <<key>>]
                /\ views' = views]_vars
    /\ [][(Render /\ w.view = "filter") =>
             /\ Len(TableFilter(views', w)) = Len(w.filter_Text)
             /\ IsPrefix(TableFilter(views, w), w.filter_Text) =>
                   TableFilter(views', w) = w.filter_Text]_vars

\* a printable key has been appended in the filter overlay and the table
\* filter does not have it yet
C18_Witness ==
    /\ w.view = "filter"
    /\ input.key \in PrintableKeys
    /\ w.filter_Text = <<input.key>>
    /\ TableFilter(views, w) = <<>>

\* the clear task that handleClear starts for the active tab
ClearRequested(win, before, after) ==
    after = Append(before, [tab |-> win.ActiveTabIndex, pc |-> "lock"])

\* C19 (as claimed): in every mode Ctrl-C is dispatched to the clear
\* callback for the active tab.
C19_ClearFromEveryMode ==
    [][keyEvent(KeyCtrlC) => ClearRequested(w, clears, clears')]_vars

\* C19 (amended): in the default mode Ctrl-C is dispatched to the clear
\* callback for the active tab; in the sort overlay it has no effect and in
\* the filter overlay the name of the key is appended to the filter text,
\* no clear being requested in either.
C19_ClearFromDefault ==
    [][keyEvent(KeyCtrlC) =>
        CASE w.view = "def" -> ClearRequested(w, clears, clears') /\ w' = w
          [] w.view = "sort" -> UNCHANGED <<w, app, clears>>
          [] w.view = "filter" ->
                /\ w' = [w EXCEPT !.filter_Text = @ \o KeyText[KeyCtrlC]]
                /\ UNCHANGED <<app, clears>>]_vars

\* Ctrl-C has been pressed in the default mode on a tab other than the first
C19_Witness ==
    /\ input.key = KeyCtrlC
    /\ w.view = "def"
    /\ w.ActiveTabIndex # 0
    /\ Len(clears) > 0
    /\ clears[Len(clears)].tab = w.ActiveTabIndex

\* C20: the tab pane's index and app.currTab change only in the default
\* mode, by <Left> or <Right>; no key of the sort or the filter overlay
\* changes either; and app.currTab is the tab pane's index after every tab
\* switch, hence always.
C20_TabSwitchOnlyInDefault ==
    /\ [][(w'.ActiveTabIndex # w.ActiveTabIndex \/ app'.currTab # app.currTab)
             => /\ w.view = "def"
                /\ input'.key \in {KeyTabLeft, KeyTabRight}
                /\ input'.n = input.n + 1]_vars
    /\ [][\A key \in Keys :
             (w.view # "def" /\ keyEvent(key)) =>
                /\ w'.ActiveTabIndex = w.ActiveTabIndex
                /\ app'.currTab = app.currTab]_vars
    /\ [][w'.switches # w.switches => app'.currTab = w'.ActiveTabIndex]_vars
    /\ [](app.currTab = w.ActiveTabIndex)

\* a tab switch has moved both indices away from the first tab
C20_Witness ==
    /\ input.key \in {KeyTabLeft, KeyTabRight}
    /\ w.switches > 0
    /\ w.ActiveTabIndex # 0
    /\ app.currTab = w.ActiveTabIndex

(***************************************************************************)
(* SpecTests: a table as the tests of the xtui package set it up           *)
(* (NewTable, then visibleRows, curr, prev, offset, out and the filter     *)
(* assigned), and calls of its scroll and filter operations.               *)
(***************************************************************************)
\* TableRows{{""}, ..., {""}} of n rows
TestRows(n) == [i \in 1..n |-> <<"">>]

\* the texts written to the filter and appended to it
TestStrings == {<<>>, <<"a">>, <<"a", "b">>}

\* the arguments of ReduceFilter: negative, within the text, beyond it
ReduceArgs == -1..3

TestTables ==
    {[NewTable EXCEPT !.visibleRows = v, !.curr = c, !.prev = p,
                      !.offset = o, !.out = TestRows(n), !.outCap = n,
                      !.filter = f] :
        v \in 0..MaxVisibleRows, c \in 0..(MaxVisibleRows - 1),
        p \in 0..1, o \in 0..(MaxOutRows - 2),
        n \in {0} \cup (MaxOutRows - 2)..MaxOutRows, f \in {<<>>, <<"a", "b">>}}

InitTests ==
    /\ w = NewTermWindow
    /\ views = resize(NewViews, MaxTermHeight)
    /\ app = [NewApp EXCEPT !.wg = 1]
    /\ fg = "loop"
    /\ poller = NewPoller
    /\ clears = <<>>
    /\ handler = NewHandler
    /\ sorts = <<>>
    /\ input = NoInput
    /\ \E t \in TestTables : test = NewTest(t)

\* the test after one more call, of operation op with the given result
Called(op, result) ==
    [T |-> result,
     start |-> test.start,
     op |-> IF test.n = 0 \/ test.op = op THEN op ELSE "mixed",
     n |-> test.n + 1]

TestScrollUp ==
    /\ test.n < MaxCalls
    /\ test' = Called("ScrollUp", ScrollUp(test.T))
    /\ UNCHANGED <<w, views, app, fg, poller, clears, handler, sorts, input>>

TestScrollDown ==
    /\ test.n < MaxCalls
    /\ test' = Called("ScrollDown", ScrollDown(test.T))
    /\ UNCHANGED <<w, views, app, fg, poller, clears, handler, sorts, input>>

TestPageUp ==
    /\ test.n < MaxCalls
    /\ test' = Called("PageUp", PageUp(test.T))
    /\ UNCHANGED <<w, views, app, fg, poller, clears, handler, sorts, input>>

TestPageDown ==
    /\ test.n < MaxCalls
    /\ test' = Called("PageDown", PageDown(test.T))
    /\ UNCHANGED <<w, views, app, fg, poller, clears, handler, sorts, input>>

TestAppendToFilter(s) ==
    /\ test.n < MaxCalls
    /\ test' = Called("AppendToFilter", AppendToFilter(test.T, s))
    /\ UNCHANGED <<w, views, app, fg, poller, clears, handler, sorts, input>>

TestReduceFilter(n) ==
    /\ test.n < MaxCalls
    /\ test' = Called("ReduceFilter", ReduceFilter(test.T, n))
    /\ UNCHANGED <<w, views, app, fg, poller, clears, handler, sorts, input>>

NextTests ==
    \/ TestScrollUp
    \/ TestScrollDown
    \/ TestPageUp
    \/ TestPageDown
    \/ \E s \in TestStrings : TestAppendToFilter(s)
    \/ \E n \in ReduceArgs : TestReduceFilter(n)

SpecTests == InitTests /\ [][NextTests]_vars

(***************************************************************************)
(* Properties of the table's operations (SpecTests).                       *)
(***************************************************************************)
Viewport(t) == <<t.offset, t.curr, t.prev>>

\* the table of the scenario: 6 output rows, 2 visible rows, offset 0,
\* cursor 0, and only ScrollDown called on it
ScrollDownScenario ==
    /\ Len(test.start.out) = 6
    /\ test.start.visibleRows = 2
    /\ test.start.offset = 0
    /\ test.start.curr = 0
    /\ test.op = "ScrollDown"

\* C25 (as claimed): on that table four consecutive ScrollDown calls give the
\* (offset, cursor) sequence (0,1), (1,1), (2,1), (2,1).
C25_ScrollDownSequence ==
    ScrollDownScenario =>
       <<test.T.offset, test.T.curr>> =
          << <<0, 1>>, <<1, 1>>, <<2, 1>>, <<2, 1>> >>[test.n]

\* C25 (amended): on that table four consecutive ScrollDown calls give the
\* (offset, cursor) sequence (0,1), (1,1), (2,1), (3,1): the fourth call
\* moves the offset as the second and the third do.
C25_ScrollDownSequenceAmended ==
    ScrollDownScenario =>
       <<test.T.offset, test.T.curr>> =
          << <<0, 1>>, <<1, 1>>, <<2, 1>>, <<3, 1>> >>[test.n]

\* the fourth ScrollDown of the scenario has been made
C25_Witness ==
    /\ ScrollDownScenario
    /\ test.n = 4
    /\ test.T.offset = 3
    /\ test.T.curr = 1

\* what a scroll call leaves alone
ScrollFrame(t, u) ==
    /\ u.visibleRows = t.visibleRows
    /\ u.out = t.out
    /\ u.Rows = t.Rows
    /\ u.filter = t.filter
    /\ u.panicked = t.panicked

\* C26: ScrollUp decrements the cursor, recording the old one as previous
\* and leaving the offset, when cursor > 0; otherwise decrements the offset
\* when offset > 0; otherwise leaves the viewport as it is.  ScrollDown
\* increments the cursor, recording the old one, when cursor <
\* visibleCount - 1; otherwise increments the offset when offset +
\* visibleCount < len(filteredRows); otherwise leaves the viewport as it is.
C26_SingleStepScroll ==
    /\ [][TestScrollUp =>
            LET t == test.T
                u == test'.T
            IN /\ ScrollFrame(t, u)
               /\ Viewport(u) =
                     IF t.curr > 0 THEN <<t.offset, t.curr - 1, t.curr>>
                     ELSE IF t.offset > 0 THEN <<t.offset - 1, t.curr, t.prev>>
                     ELSE Viewport(t)]_vars
    /\ [][TestScrollDown =>
            LET t == test.T
                u == test'.T
            IN /\ ScrollFrame(t, u)
               /\ Viewport(u) =
                     IF t.curr < t.visibleRows - 1
                     THEN <<t.offset, t.curr + 1, t.curr>>
                     ELSE IF t.offset + t.visibleRows < Len(t.out)
                          THEN <<t.offset + 1, t.curr, t.prev>>
                          ELSE Viewport(t)]_vars

\* a ScrollUp has recorded a previous cursor other than the one set up, and
\* the ScrollDown after it has moved the offset
C26_Witness ==
    /\ test.op = "mixed"
    /\ test.n = 2
    /\ test.start.curr > 0
    /\ test.T.prev = test.start.curr
    /\ test.T.prev # test.start.prev
    /\ test.T.curr = test.start.curr - 1
    /\ test.T.offset = test.start.offset + 1

\* the number of single steps of a page: visibleCount - 1, none below 1
PageSteps(t) == IF t.visibleRows > 1 THEN t.visibleRows - 1 ELSE 0

\* C27: the viewport after visibleCount - 1 consecutive ScrollDown calls on
\* a table is the viewport one PageDown call gives from the same start, and
\* likewise for ScrollUp and PageUp; with visibleCount <= 1 PageDown and
\* PageUp change nothing.
C27_PageIsRepeatedScroll ==
    /\ ((test.op = "ScrollDown" \/ test.n = 0) /\ test.n = PageSteps(test.start))
          => Viewport(test.T) = Viewport(PageDown(test.start))
    /\ ((test.op = "ScrollUp" \/ test.n = 0) /\ test.n = PageSteps(test.start))
          => Viewport(test.T) = Viewport(PageUp(test.start))
    /\ (test.op = "PageDown" /\ test.n = 1)
          => test.T.visibleRows = test.start.visibleRows
    /\ test.start.visibleRows <= 1 =>
          PageDown(test.start) = test.start /\ PageUp(test.start) = test.start

\* two ScrollDown calls on a table of three visible rows have moved the
\* cursor and then the offset
C27_Witness ==
    /\ test.op = "ScrollDown"
    /\ test.start.visibleRows = 3
    /\ test.n = 2
    /\ test.T.curr = test.start.curr + 1
    /\ test.T.offset = test.start.offset + 1
    /\ Viewport(test.T) = Viewport(PageDown(test.start))

\* C29: AppendToFilter(s) makes the filter the previous text followed by s
\* and sets offset and cursor to 0; every call that changes the filter text
\* of the table leaves offset = 0 and cursor = 0.
C29_AppendResets ==
    /\ [][\A s \in TestStrings :
             TestAppendToFilter(s) =>
                /\ test'.T.filter = test.T.filter \o s
                /\ test'.T.offset = 0
                /\ test'.T.curr = 0]_vars
    /\ [][test'.T.filter # test.T.filter =>
             test'.T.offset = 0 /\ test'.T.curr = 0]_vars

\* an AppendToFilter on a scrolled table with a filter text
C29_Witness ==
    /\ test.op = "AppendToFilter"
    /\ test.n = 1
    /\ test.start.filter # <<>>
    /\ test.start.offset > 0
    /\ test.start.curr > 0
    /\ test.T.filter = test.start.filter \o <<"a">>
    /\ test.T.offset = 0
    /\ test.T.curr = 0

\* C30: ReduceFilter(n) removes the last n bytes of the filter text when
\* 0 <= n <= len(filter); when n < 0 or n > len(filter) it changes nothing
\* of the table and does not fail.
C30_ReduceFilter ==
    [][\A n \in ReduceArgs :
          TestReduceFilter(n) =>
             LET t == test.T
                 u == test'.T
             IN IF 0 <= n /\ n <= Len(t.filter)
                THEN /\ Len(u.filter) = Len(t.filter) - n
                     /\ t.filter = u.filter \o
                           SubSeq(t.filter, Len(u.filter) + 1, Len(t.filter))
                     /\ ~u.panicked
                ELSE u = t]_vars

\* a ReduceFilter out of the range has left a scrolled table with a filter
\* text as it was (one within the range would have reset the offset)
C30_Witness ==
    /\ test.op = "ReduceFilter"
    /\ test.n = 1
    /\ test.start.filter # <<>>
    /\ test.start.offset > 0
    /\ test.T = test.start

(***************************************************************************)
(* SpecFilter: the filter overlay across the tabs: the handlers of the     *)
(* filter keys and of the tab switch, the render tick and the poll cycle   *)
(* taken as one step each.                                                 *)
(***************************************************************************)
NextFilter ==
    \/ handleFilterMenu /\ UNCHANGED input
    \/ \E key \in TypedChars : handleAppendToFilter(key) /\ UNCHANGED input
    \/ handleReduceFilter /\ UNCHANGED input
    \/ handleFilter /\ UNCHANGED input
    \/ handleDefaultMenu /\ UNCHANGED input
    \/ \E key \in {KeyTabLeft, KeyTabRight} : handleTabSwitch(key) /\ UNCHANGED input
    \/ Render
    \/ \E sample \in PolledSamples(app.currTab) : pollCycle(sample)

SpecFilter == InitKeys /\ [][NextFilter]_vars

C22_SortCancel ==
    [][\A key \in {KeyCancel, KeyCtrlSpace} :
          (w.view = "sort" /\ keyEvent(key)) =>
             /\ w' = [w EXCEPT !.view = "def", !.sortPanel_Rows = <<"">>]
             /\ app'.sortBy = app.sortBy
             /\ sorts' = sorts]_vars

\* the overlay of a sortable tab has been cancelled after the selection was
\* moved, with no sort requested
C22_Witness ==
    /\ input.key \in {KeyCancel, KeyCtrlSpace}
    /\ w.view = "def"
    /\ w.sortPanel_Rows = <<"">>
    /\ w.sortPanel_SelectedRow > 0
    /\ sorts = <<>>
    /\ app.sortBy = NewApp.sortBy

(***************************************************************************)
(* The tab of a poll cycle (SpecApp).                                      *)
(***************************************************************************)
\* C23: a poll cycle reads the active tab once, when it has taken vppLock;
\* the requests it sends are those of that tab's provider call, and the only
\* row buffer a step of the application replaces is that tab's, by the
\* cycle's Update: the row buffers of all other tabs are left as they are.
C23_PollOnlyActiveTab ==
    /\ [][pollLock => poller'.tab = app.currTab]_vars
    /\ [][(poller.pc \in CyclePCs /\ poller'.pc \in CyclePCs)
              => poller'.tab = poller.tab]_vars
    /\ [][\A r \in handler'.inflight \ handler.inflight :
              r.by = "poll" =>
                 /\ poller.pc = "fetch"
                 /\ r.op \in FetchOps(poller.tab)]_vars
    /\ [][\A tab \in Tabs :
              views'[tab].Rows # views[tab].Rows =>
                 /\ poller.pc = "assign"
                 /\ tab = poller.tab]_vars

\* a cycle has replaced the rows of the tab it read although another tab
\* has become the active one since, whose rows are still not filled
C23_Witness ==
    /\ poller.pc = "tunlock"
    /\ poller.tab # app.currTab
    /\ views[poller.tab].Rows # <<>>
    /\ views[app.currTab].Rows = <<>>

(***************************************************************************)
(* SpecFair: the application on the Errors tab, whose provider call sends  *)
(* one request, with the poll goroutine, the clear and sort tasks and the  *)
(* foreground's scroll, sort, clear and render events (a render tick taken *)
(* as one step), under the scheduling of the Go runtime.  Every goroutine that can take  *)
(* a step eventually takes one; sync.Mutex hands a lock to a waiter that   *)
(* has waited for more than a millisecond (starvation mode), so a waiter   *)
(* whose lock is free again and again eventually holds it; every request   *)
(* to the handler returns.  The keys are the user's and have no fairness.  *)
(* A run-time panic ends the process: no goroutine takes a step after it.  *)
(***************************************************************************)
\* the steps of the poll goroutine inside a cycle, after vppLock.Lock(),
\* but for the sorting and formatting
pollStep ==
    \/ pollFetch
    \/ \E req \in handler.inflight, ok \in BOOLEAN :
          \E sample \in (IF ok THEN PolledSamples(poller.tab) ELSE {<<>>}) :
              pollReply(req, ok, sample)
    \/ pollTableLock
    \/ pollAssign
    \/ pollTableUnlock
    \/ pollUnlock

\* the steps of a clear task after vppLock.Lock()
clearStep(i) ==
    \/ clearBody(i)
    \/ \E ok \in BOOLEAN : clearReply(i, ok)
    \/ clearDone(i)
    \/ clearUnlock(i)

\* the steps of a sort task
sortStep(i) == sortApply(i) \/ sortDone(i)

\* the events of the foreground loop's select; tui.Render takes the table's
\* lock, so a render tick is taken as one step where the lock is free
foregroundEvent ==
    \/ handleScroll(KeyScrollDown) /\ UNCHANGED input
    \/ handleClear /\ UNCHANGED input
    \/ handleSortMenu /\ UNCHANGED input
    \/ handleSort /\ UNCHANGED input
    \/ handleDefaultMenu /\ UNCHANGED input
    \/ views[w.mainView.tab].mu = "free" /\ Render

NextFair ==
    \/ ~Crashed /\ pollTick
    \/ ~Crashed /\ pollLock
    \/ ~Crashed /\ pollStep
    \/ ~Crashed /\ pollFormat
    \/ ~Crashed /\ \E i \in ClearTasks : clearLock(i)
    \/ ~Crashed /\ \E i \in ClearTasks : clearStep(i)
    \/ ~Crashed /\ \E i \in SortTasks : sortStep(i)
    \/ ~Crashed /\ foregroundEvent

\* pollFormat is enabled exactly when the poller is at "format", and is the
\* only step that leaves it: its weak fairness is written as the state
\* formula it amounts to
Fairness ==
    /\ WF_vars(~Crashed /\ pollTick)
    /\ SF_vars(~Crashed /\ pollLock)
    /\ WF_vars(~Crashed /\ pollStep)
    /\ []<>(Crashed \/ poller.pc # "format")
    /\ \A i \in 1..MaxEvents :
          /\ SF_vars(~Crashed /\ i \in ClearTasks /\ clearLock(i))
          /\ WF_vars(~Crashed /\ i \in ClearTasks /\ clearStep(i))
          /\ WF_vars(~Crashed /\ i \in SortTasks /\ sortStep(i))

InitFair == InitApp /\ app.currTab = Errors

SpecFair == InitFair /\ [][NextFair]_vars /\ Fairness

(***************************************************************************)
(* Properties of the requests (SpecFair).                                  *)
(***************************************************************************)
\* the task has run the switch on its tab
Cleared(i) == i \in ClearTasks /\ clears[i].pc \in {"signal", "unlock", "done"}

\* the task has assigned the SortSpec of its tab
Sorted(i) == i \in SortTasks /\ sorts[i].pc \in {"signal", "done"}

\* as long as the process runs, the task of every request takes its turn:
\* it waits for the lock its callback takes and then runs its switch
ServedUnlessCrashed ==
    \A i \in 1..MaxEvents :
        /\ (i \in ClearTasks) ~> (Cleared(i) \/ Crashed)
        /\ (i \in SortTasks) ~> (Sorted(i) \/ Crashed)

\* C24: no sort or clear request is dropped: the task of every clear
\* request eventually runs the clear operation of its tab, and the task of
\* every sort confirm eventually assigns the SortSpec of its tab, also when
\* the request arrives during a poll cycle.
C24_NoRequestDropped ==
    \A i \in 1..MaxEvents :
        /\ (i \in ClearTasks) ~> Cleared(i)
        /\ (i \in SortTasks) ~> Sorted(i)

(***************************************************************************)
(* The slice of Draw (SpecTable).                                          *)
(***************************************************************************)
\* C31: whatever the poller's Update, the scrolls, the resizes and the
\* filter edits before it, every Draw slices the output rows in range: the
\* render does not panic, and where it has output rows to slice it leaves
\* offset <= len(out) and offset + visibleRows <= len(out).
C31_DrawInRange ==
    [][Render =>
        LET t == views'[w.mainView.tab]
        IN /\ ~t.panicked
           /\ Len(t.out) # 0 =>
                 /\ t.offset <= Len(t.out)
                 /\ t.offset + t.visibleRows <= Len(t.out)]_vars

(***************************************************************************)
(* The select of Start after the quit key (SpecExit).  handleExit runs     *)
(* inside the select's window-event case; when it returns, Start is back   *)
(* at its select with w.stop closed.  A select with several ready cases    *)
(* takes any of them, so a tick of the refresh timer or a window event     *)
(* that became ready during the exit callback may be taken before          *)
(* case <-w.stop.  w.renderedClosed records a tui.Render after tui.Close.  *)
(***************************************************************************)
\* handleExit has returned and Start has not
Quitting == fg = "loop" /\ w.stopClosed /\ ~Crashed

\* case <-w.refresh after the quit: render() of the exit view
startRender ==
    /\ Quitting
    /\ w' = [w EXCEPT !.renderedClosed = w.tuiClosed]
    /\ UNCHANGED <<views, app, fg, background, sorts, input, test>>

\* case e := <-w.windowEvents after the quit, a resize event
startResize(h) ==
    /\ Quitting
    /\ views' = resize(views, h)
    /\ UNCHANGED <<w, app, fg, background, sorts, input, test>>

\* a key event after the quit, the clear key: w.view is still the default
\* mode, handleClear calls the clear callback, which starts a task
startClear ==
    /\ Quitting
    /\ w.view = "def"
    /\ EventsSoFar < MaxEvents
    /\ app' = [app EXCEPT !.wg = @ + 1]
    /\ clears' = Append(clears, [tab |-> w.ActiveTabIndex, pc |-> "lock"])
    /\ UNCHANGED <<w, views, fg, poller, handler, sorts, input, test>>

\* a key event after the quit, the quit key again: handleExit's close(w.stop)
\* of the closed channel is a run-time panic
startExit ==
    /\ Quitting
    /\ w.view = "def"
    /\ fg' = "panic"
    /\ UNCHANGED <<w, views, app, background, sorts, input, test>>

NextExit ==
    \/ NextApp
    \/ startRender
    \/ \E h \in TermHeights : startResize(h)
    \/ startClear
    \/ startExit

SpecExit == InitApp /\ [][NextExit]_vars

\* C32: once handleExit has returned the foreground does nothing but return
\* from Start: the window, the tables and the list of clear tasks stay as
\* they are; close(w.stop) runs once, tui.Render is not called after
\* tui.Close, and no clear task starts after Disconnect.
C32_QuitIsFinal ==
    /\ [][Quitting =>
            /\ w' = w /\ views' = views /\ Len(clears') = Len(clears)
            /\ fg' \in {"loop", "stopped"}]_vars
    /\ [](fg # "panic")
    /\ [](~w.renderedClosed)
    /\ [][handler.closed => Len(clears') = Len(clears)]_vars

(***************************************************************************)
(* The sort overlay across tabs (SpecSortTabs): the handlers of the sort   *)
(* mode and the tab switch, the sort tasks and the poll cycle, from        *)
(* App.Run on.  The overlay is paged with <PageUp> and <PageDown>.         *)
(***************************************************************************)
NextSortTabs ==
    \/ handleSortMenu /\ UNCHANGED input
    \/ \E key \in {KeyPgup, KeyPgdn} : handleSortPanelScroll(key) /\ UNCHANGED input
    \/ handleDefaultMenu /\ UNCHANGED input
    \/ \E key \in {KeyTabLeft, KeyTabRight} : handleTabSwitch(key) /\ UNCHANGED input
    \/ handleSort /\ UNCHANGED input
    \/ \E i \in SortTasks : sortApply(i)
    \/ \E i \in SortTasks : sortDone(i)
    \/ \E sample \in PolledSamples(app.currTab) : pollCycle(sample)

SpecSortTabs == InitApp /\ [][NextSortTabs]_vars

\* C33: the committed sort column of every tab is NoColumn or an index into
\* that tab's own list of sort items, and the poller's sort never meets a
\* column without a case (the nil sortFunc).
C33_SortColumnValid ==
    /\ \A tab \in Tabs :
          \/ app.sortBy[tab].field = NoColumn
          \/ app.sortBy[tab].field \in 0..(Len(ItemsList(tab)) - 1)
    /\ poller.pc # "panic"

(***************************************************************************)
(* SpecFilterEdit: the filter overlay with two characters to type, so that *)
(* a text can be replaced by another of the same length between two        *)
(* ticks of the refresh timer.                                             *)
(***************************************************************************)
EditChars == {"a", "b"}

NextFilterEdit ==
    \/ handleFilterMenu /\ UNCHANGED input
    \/ \E key \in EditChars : handleAppendToFilter(key) /\ UNCHANGED input
    \/ handleReduceFilter /\ UNCHANGED input
    \/ handleFilter /\ UNCHANGED input
    \/ handleDefaultMenu /\ UNCHANGED input
    \/ \E key \in {KeyTabLeft, KeyTabRight} : handleTabSwitch(key) /\ UNCHANGED input
    \/ Render
    \/ \E sample \in PolledSamples(app.currTab) : pollCycle(sample)

SpecFilterEdit == InitKeys /\ [][NextFilterEdit]_vars

\* C34: every render leaves the filter of the active table equal to the
\* filter text of the window.
C34_RenderSyncsFilter ==
    [][Render => TableFilter(views', w) = w.filter_Text]_vars

(***************************************************************************)
(* The order of the sort tasks (SpecSortTabs).                             *)
(***************************************************************************)
\* the sort tasks of a tab, in the order of their confirms
TasksOf(tab) == {i \in SortTasks : sorts[i].tab = tab}

\* C35: when every sort task of a sortable tab has stored its row, the
\* tab's sort column is the row of the last confirm on that tab.
C35_SortOrder ==
    \A tab \in SortableTabs :
        (/\ TasksOf(tab) # {}
         /\ \A i \in TasksOf(tab) : sorts[i].pc \in {"signal", "done"})
        => \E j \in TasksOf(tab) :
              /\ \A i \in TasksOf(tab) : i <= j
              /\ app.sortBy[tab].field = sorts[j].row

(***************************************************************************)
(* SpecRun: the application with all its goroutines: the poll goroutine    *)
(* in steps, the clear tasks, the sort tasks, and the foreground with tab  *)
(* switch, clear, sort confirm, render in steps and the quit sequence.     *)
(* The critical sections of sortLock and of tabLock hold no blocking call  *)
(* (part_011:226-230, 249-251, 343-356, 367-369), so each is one step and  *)
(* both locks are free in every state.                                     *)
(***************************************************************************)
NextRun ==
    \/ NextApp
    \/ handleSortMenu /\ UNCHANGED input
    \/ handleDefaultMenu /\ UNCHANGED input
    \/ handleSort /\ UNCHANGED input
    \/ \E i \in SortTasks : sortApply(i)
    \/ \E i \in SortTasks : sortDone(i)

SpecRun == InitApp /\ [][NextRun]_vars

(***************************************************************************)
(* Deadlock freedom (SpecRun).  A goroutine is blocked when it waits for   *)
(* a mutex another holds or for the wait-group; a provider call in flight  *)
(* returns, so a goroutine waiting for a reply is not blocked.             *)
(***************************************************************************)
\* the foreground is in app.wg.Wait() with tasks outstanding
FgBlocked == fg = "wait" /\ app.wg # 0

\* the poll goroutine is in app.vppLock.Lock() or in v.table.Lock() with
\* the mutex held by another
PollBlocked ==
    \/ poller.pc = "lock" /\ app.vppLock # FreeLock
    \/ poller.pc = "tlock" /\ views[poller.tab].mu # "free"

\* the clear task is in app.vppLock.Lock() with the mutex held by another
ClearBlocked(i) == clears[i].pc = "lock" /\ app.vppLock # FreeLock

\* some goroutine is blocked and each of the others is blocked or has
\* returned
Deadlocked ==
    /\ ~Crashed
    /\ FgBlocked \/ PollBlocked \/ \E i \in ClearTasks : ClearBlocked(i)
    /\ FgBlocked \/ fg = "stopped"
    /\ PollBlocked \/ poller.pc = "done"
    /\ \A i \in ClearTasks : ClearBlocked(i) \/ clears[i].pc = "done"
    /\ \A i \in SortTasks : sorts[i].pc = "done"

\* C36: no reachable state of the running application is a deadlock: in
\* every state where a goroutine waits for a mutex or for the wait-group,
\* another goroutine can take a step.
C36_DeadlockFree == ~Deadlocked

\* the foreground waits for the wait-group, a clear task waits for vppLock,
\* which the poll goroutine holds while it waits for the table's mutex: all
\* but the holder of that mutex are blocked
C36_Witness ==
    /\ FgBlocked
    /\ \E i \in ClearTasks : ClearBlocked(i)
    /\ app.vppLock = HeldBy("poll", 0)
    /\ \E i \in SortTasks : sorts[i].pc = "lock"

(***************************************************************************)
(* SpecQuit: SpecFair with the quit sequence: the quit key, the poll       *)
(* goroutine's return through ctx.Done, the exit callback, the return of   *)
(* Start, and the events Start may still take after the quit.  The select  *)
(* of the poll goroutine and the select of Start choose among their ready  *)
(* cases at random, so a case that stays ready is eventually taken.        *)
(***************************************************************************)
NextQuit ==
    \/ NextFair
    \/ ~Crashed /\ pollDone
    \/ ~Crashed /\ handleExit /\ UNCHANGED input
    \/ ~Crashed /\ onExitDestroy
    \/ ~Crashed /\ onExitDisconnect
    \/ ~Crashed /\ StartReturn
    \/ startRender
    \/ startClear
    \/ startExit

FairnessQuit ==
    /\ Fairness
    /\ SF_vars(~Crashed /\ pollDone)
    /\ WF_vars(~Crashed /\ onExitDestroy)
    /\ WF_vars(~Crashed /\ onExitDisconnect)
    /\ SF_vars(~Crashed /\ StartReturn)

SpecQuit == InitFair /\ [][NextQuit]_vars /\ FairnessQuit

\* the poll goroutine has returned, the terminal is destroyed, the data
\* source is disconnected and Start has returned
ShutDown ==
    /\ poller.pc = "done"
    /\ w.tuiClosed
    /\ handler.closed
    /\ fg = "stopped"

\* the task has returned
ClearFinished(i) == i \in ClearTasks /\ clears[i].pc = "done"

SortFinished(i) == i \in SortTasks /\ sorts[i].pc = "done"

\* as long as the process runs, the quit is followed by the shutdown and
\* every task runs to its end
ShutDownUnlessCrashed ==
    /\ w.stopClosed ~> (ShutDown \/ Crashed)
    /\ \A i \in 1..MaxEvents :
          /\ (w.stopClosed /\ i \in ClearTasks) ~> (ClearFinished(i) \/ Crashed)
          /\ (w.stopClosed /\ i \in SortTasks) ~> (SortFinished(i) \/ Crashed)

\* C37: once the quit key is handled, the poll goroutine and every clear
\* and sort task eventually finish, the terminal is destroyed, the data
\* source is disconnected and Start returns.
C37_ShutdownTerminates ==
    /\ w.stopClosed ~> ShutDown
    /\ \A i \in 1..MaxEvents :
          /\ (w.stopClosed /\ i \in ClearTasks) ~> ClearFinished(i)
          /\ (w.stopClosed /\ i \in SortTasks) ~> SortFinished(i)

(***************************************************************************)
(* SpecRates: the interfaces tab with the poll goroutine in steps and the  *)
(* clear tasks, on samples of one interface whose counters grow and fall   *)
(* back (as after a clear on the data source), so that the rate columns    *)
(* differ from zero whenever they are computed against a cached sample.    *)
(***************************************************************************)
RateSamples ==
    { << IfaceRec(<<"a">>, 0, 1, 2, 1, 2, <<>>) >>,
      << IfaceRec(<<"a">>, 0, 3, 5, 4, 9, <<>>) >>,
      << IfaceRec(<<"a">>, 0, 0, 1, 0, 1, <<>>),
         IfaceRec(<<"b">>, 1, 2, 2, 2, 2, <<>>) >> }

InitRates == InitApp /\ app.currTab = Interfaces

NextRates ==
    \/ pollTick
    \/ pollLock
    \/ pollFetch
    \/ \E req \in handler.inflight, ok \in BOOLEAN :
          \E sample \in (IF ok THEN RateSamples ELSE {<<>>}) :
              pollReply(req, ok, sample)
    \/ \E req \in handler.inflight : leakedReply(req)
    \/ pollFormat
    \/ pollTableLock
    \/ pollAssign
    \/ pollTableUnlock
    \/ pollUnlock
    \/ handleClear /\ UNCHANGED input
    \/ \E i \in ClearTasks : clearLock(i)
    \/ \E i \in ClearTasks : clearBody(i)
    \/ \E i \in ClearTasks, ok \in BOOLEAN : clearReply(i, ok)
    \/ \E i \in ClearTasks : clearDone(i)
    \/ \E i \in ClearTasks : clearUnlock(i)

SpecRates == InitRates /\ [][NextRates]_vars

\* the cells of the per-second columns of the k-th interface of a row
\* buffer: packets/s rx and tx, bytes/s rx and tx
RateCells(rows, k) ==
    LET b == RowsPerIface * (k - 1)
    IN <<rows[b + 2][6], rows[b + 2][8], rows[b + 4][6], rows[b + 4][8]>>

\* the rates of an interface against a baseline: zero without a sample of
\* that name, else the difference of the counters
RatesAgainst(iface, base) ==
    IF \A j \in 1..Len(base) : base[j].InterfaceName # iface.InterfaceName
    THEN <<Sprint(0), Sprint(0), Sprint(0), Sprint(0)>>
    ELSE LET c == base[CacheIdx(base, iface.InterfaceName)]
         IN <<Sprint(USub(iface.RxPackets, c.RxPackets)),
              Sprint(USub(iface.TxPackets, c.TxPackets)),
              Sprint(USub(iface.RxBytes, c.RxBytes)),
              Sprint(USub(iface.TxBytes, c.TxBytes))>>

\* the clear task of the interfaces tab gets the reply of its call
ClearedInterfaces ==
    \E i \in ClearTasks :
        /\ clears[i].tab = Interfaces
        /\ clears[i].pc = "wait" /\ clears'[i].pc = "signal"

\* the poll goroutine formats a sample of the interfaces tab
FormatsInterfaces ==
    /\ poller.pc = "format" /\ poller'.pc = "tlock"
    /\ poller.tab = Interfaces

\* C38: the clear of the interfaces tab leaves the rate cache empty; the
\* cache changes only there and where the poller formats a sample; the
\* sample formatted on an empty cache shows every per-second cell as zero
\* and becomes the cache, and the sample formatted after it shows the
\* differences against it.
C38_ClearResetsRates ==
    /\ [][ClearedInterfaces => app'.ifCache = <<>>]_vars
    /\ [][app'.ifCache # app.ifCache => ClearedInterfaces \/ FormatsInterfaces]_vars
    /\ [][FormatsInterfaces =>
            /\ app'.ifCache = poller.res
            /\ Len(poller'.rows) = RowsPerIface * Len(poller.res)
            /\ \A k \in 1..Len(poller.res) :
                  RateCells(poller'.rows, k) =
                      IF app.ifCache = <<>>
                      THEN <<Sprint(0), Sprint(0), Sprint(0), Sprint(0)>>
                      ELSE RatesAgainst(poller.res[k], app.ifCache)]_vars

\* after a clear of the interfaces tab the poller has shown a sample with
\* all rates zero and now holds the rows of the sample after it, whose
\* rates are the differences 2, 3, 3, 7 against that sample
C38_Witness ==
    /\ \E i \in ClearTasks : clears[i].tab = Interfaces /\ clears[i].pc = "done"
    /\ poller.pc = "tlock" /\ poller.cycles = 1
    /\ Len(poller.rows) = RowsPerIface
    /\ RateCells(poller.rows, 1) = <<Sprint(2), Sprint(3), Sprint(3), Sprint(7)>>
    /\ RateCells(views[Interfaces].Rows, 1) = <<Sprint(0), Sprint(0), Sprint(0), Sprint(0)>>

(***************************************************************************)
(* The viewport after a resize (SpecTable).                                *)
(***************************************************************************)
\* C39: a resize to a terminal of h lines leaves every table with
\* visibleRows = max(0, height - skipRows), where height = h - 1 - tableTopY
\* is the table's new height: it is not negative when the resize returns.
C39_VisibleRowsAfterResize ==
    [][\A h \in TermHeights :
          ResizeEvent(h) =>
              \A tab \in Tabs :
                  LET height == h - 1 - tableTopY
                  IN views'[tab].visibleRows =
                        IF height - skipRows > 0 THEN height - skipRows ELSE 0]_vars

(***************************************************************************)
(* The previous cursor (SpecTable).                                        *)
(***************************************************************************)
\* a step of one of the operations that move the cursor by themselves: a
\* scroll by one row, a resize, a render (whose Filter resets the positions
\* when the filter text has changed)
CursorOperation ==
    \/ \E key \in {KeyScrollUp, KeyScrollDown} : handleScroll(key)
    \/ \E h \in TermHeights : ResizeEvent(h)
    \/ Render

\* the operation does not take prev out of the row positions
PrevValid ==
    \A tab \in Tabs : views[tab].prev >= 0 => views'[tab].prev >= 0

\* where the operation has moved the cursor, prev is the cursor before it
PrevIsOldCursor ==
    \A tab \in Tabs :
        views'[tab].curr # views[tab].curr => views'[tab].prev = views[tab].curr

\* C40: after every ScrollUp, ScrollDown, Resize and filter change prev is
\* a valid row position (>= 0), and when the operation has moved the cursor
\* prev is the cursor's value before the operation.
C40_PreviousCursor ==
    [][CursorOperation => PrevValid /\ PrevIsOldCursor]_vars

\* the second half alone: a moved cursor is recorded
C40_OldCursorOnly == [][CursorOperation => PrevIsOldCursor]_vars

====
